---- MODULE Spec2Model ----
(***************************************************************************)
(* Build-verification-and-repair loop of the Agentic-Ai-Backend service.   *)
(*                                                                         *)
(* Five specifications share this module.                                  *)
(*   Spec      the control loops: modernize_project (app.py) around        *)
(*             regenerate_until_success (app.py),                          *)
(*             build_and_cleanup (app.py), build_and_deploy and            *)
(*             fix_and_build (agents/agent3_test_gen.py).  Build outputs,  *)
(*             diagnostics and patches are abstract values.                *)
(*   SpecApply the two appliers, apply_fixes (agent3_test_gen.py) and      *)
(*             apply_structured_changes (app.py), over a small file        *)
(*             system whose paths are character sequences, so that         *)
(*             normpath, join and startswith do what os.path does, and     *)
(*             the removal of the backup files after the build.            *)
(*   SpecExtract extract_build_errors (agent3_test_gen.py) on the text of  *)
(*             a build, its three patterns matched character by character. *)
(*   SpecRequest the files fix_build_errors reads for the oracle           *)
(*             (get_file_content), after extract_build_errors.             *)
(*   SpecGenerate the retry loop of generate_code (agents/agent2_code_gen) *)
(*             on the answers of the model.                                *)
(***************************************************************************)
EXTENDS Integers, Sequences, FiniteSets, TLC

VARIABLES
    \* ---- control loops ----
    mode,                       \* "service": regenerate_until_success; "direct": one call of fix_and_build
    pc,                         \* position of the single thread of control
    max_regeneration_attempts,  \* app.py:191 (3 in the service)
    regeneration_attempt,       \* loop variable of regenerate_until_success
    max_attempts,               \* parameter of fix_and_build
    attempt,                    \* iterations of the for loop of fix_and_build finished so far
    has_on_success,             \* whether fix_and_build got an on_success callback
    output,                     \* local `output` of fix_and_build
    package_output,             \* local `package_output` of fix_and_build
    failing,                    \* the text handed to extract_build_errors
    errors,                     \* local `errors`
    fixes,                      \* local `fixes`
    fb_result,                  \* what fix_and_build returned
    bd_result,                  \* what build_and_deploy returned
    build_output,               \* local `build_output` of regenerate_until_success
    regen_result,               \* what regenerate_until_success returned
    bakFiles,                   \* whether .bak files lie in the workspace
    \* ---- observation of the control loops (history) ----
    compileStarts,              \* compile phases started in the current run of fix_and_build
    packageStarts,              \* package phases started in the current run
    genCalls,                   \* changesets requested from the generator
    innerRuns,                  \* runs of fix_and_build started
    oracleCalls,                \* calls of the oracle in the current run
    onSuccessCalls,             \* calls of on_success in the current run
    wsVersion,                  \* number of workspace writes so far
    lastCompile,                \* the last compile phase: attempt, success, wsVersion when it started
    lastPackage,                \* the last package phase, likewise
    lastRunEnd,                 \* how the last run of fix_and_build ended
    genAfter,                   \* lastRunEnd as it was at each request after the first
    lastRepair,                 \* how the repair half of the last failed attempt ended
    \* ---- appliers ----
    applier,                    \* "fixes": apply_fixes; "structured": apply_structured_changes
    apc,                        \* position inside the batch
    fs,                         \* the file system: path -> node
    fs0,                        \* the file system before the batch was first applied
    fs1,                        \* the file system after the first application
    batch,                      \* the changeset
    idx,                        \* index of the instruction being processed
    pass,                       \* 1: first application, 2: second application of the same batch
    target,                     \* full_path of the instruction being processed
    pre,                        \* the file system when the current instruction started
    executed,                   \* indices whose instruction ran to its end in this pass
    attempted,                  \* indices whose instruction was started in this pass
    skipped,                    \* indices refused by the containment check
    applyRet,                   \* what the applier gave its caller: "none" (running), "True", "False", "None", "raised"
    firstRet,                   \* applyRet of the first application
    \* ---- extract_build_errors ----
    ex_output,                  \* parameter `output`: the text of a build
    ex_pc,                      \* the pass that runs next
    ex_errors,                  \* local `errors`
    \* ---- fix_build_errors, the files read for the oracle ----
    files_to_fix,               \* the files named in diagnostics that are still to be read
    file_contents,              \* local `file_contents`: file name -> content
    \* ---- modernize_project, the handler of POST /requirement ----
    request,                    \* the JSON body of the request
    response,                   \* the status and body of the answer, status 0 while there is none
    cloned,                     \* whether clone_or_pull_repo was called
    committed,                  \* whether apply_and_commit_changes was called
    \* ---- generate_code ----
    responses,                  \* what the model answers to the successive calls
    gpc,                        \* position inside generate_code
    retry,                      \* loop variable `attempt` of generate_code
    raw_output,                 \* local `raw_output`, after cleaning
    gen_result,                 \* what generate_code returned or raised
    llmCalls                    \* calls of llm.invoke in generate_code

ctlVars == <<mode, pc, max_regeneration_attempts, regeneration_attempt, max_attempts,
             attempt, has_on_success, output, package_output, failing, errors, fixes,
             fb_result, bd_result, build_output, regen_result, bakFiles>>
obsVars == <<compileStarts, packageStarts, genCalls, innerRuns, oracleCalls,
             onSuccessCalls, wsVersion, lastCompile, lastPackage, lastRunEnd, genAfter,
             lastRepair>>
applyVars == <<applier, apc, fs, fs0, fs1, batch, idx, pass, target, pre, executed,
               attempted, skipped, applyRet, firstRet>>
extractVars == <<ex_output, ex_pc, ex_errors, files_to_fix, file_contents>>
serviceVars == <<request, response, cloned, committed, responses, gpc, retry, raw_output,
                 gen_result, llmCalls>>
vars == <<ctlVars, obsVars, applyVars, extractVars, serviceVars>>

----------------------------------------------------------------------------
(* Bounds of the model *)

\* largest inner bound a direct call of fix_and_build is given
MaxAttempts == 4
\* largest outer bound regenerate_until_success is given
MaxRegenerationAttempts == 3
\* longest changeset
MaxBatch == 2

(* Program constants *)

\* build_and_cleanup(config, max_attempts=3) in regenerate_until_success
ServiceMaxAttempts == 3


----------------------------------------------------------------------------
(* Values of the control loops *)

\* what the external build tool can do in one phase: succeed; fail with
\* "[ERROR] " lines; fail with no such line; exceed the 300 s timeout
BuildKinds == {"ok", "errors", "silent", "timeout"}

\* a local that has not been assigned yet
Unbound == [phase |-> "unbound", run |-> 0, attempt |-> 0, kind |-> "unbound"]

\* the message returned when Maven is not on the PATH
MavenUnavailableMsg == [phase |-> "maven_check", run |-> 0, attempt |-> 0, kind |-> "unavailable"]

NoResult == [set |-> FALSE, success |-> FALSE, log |-> <<>>]

NoPhase == [set |-> FALSE, run |-> 0, attempt |-> 0, ok |-> FALSE, ws |-> 0]

NoPackage == [set |-> FALSE, run |-> 0, attempt |-> 0, ok |-> FALSE, ws |-> 0, compile |-> NoPhase]

NoRegenResult == [set |-> FALSE, success |-> FALSE, build_output |-> <<>>, regeneration_attempts |-> 0]

\* (success, stdout + "\n" + stderr) of run_maven_compile: the timeout and any
\* other exception of subprocess.run are caught and give success = False
run_maven_compile(kind) ==
    [phase |-> "compile", run |-> innerRuns, attempt |-> attempt, kind |-> kind]

run_maven_package(kind) ==
    [phase |-> "package", run |-> innerRuns, attempt |-> attempt, kind |-> kind]

\* result.returncode == 0
BuildSuccess(o) == o.kind = "ok"

\* extract_build_errors on a build output: only an output with "[ERROR] " lines
\* gives diagnostics (the timeout sentinel has no such line); each diagnostic
\* remembers the output it was extracted from
extract_build_errors(o) ==
    IF o.kind = "errors" THEN <<[src |-> o]>> ELSE <<>>

\* what the oracle (the LLM call of fix_build_errors) can answer:
\*   "fixes"     JSON whose "files" list holds well-formed instructions
\*   "invalid"   JSON whose "files" list holds instructions with a missing or
\*               unrecognised action, or an absolute path
\*   "empty"     JSON without "files", or with an empty list
\*   "malformed" text that json.loads rejects, or an exception of llm.invoke
OracleAnswers == {"fixes", "invalid", "empty", "malformed"}

\* whether the instructions of an answer are well-formed
WellFormed(answer) == answer = "fixes"

\* fix_build_errors: [] without a call when there are no errors; otherwise
\* parsed.get("files", []) as it is, and [] when the answer cannot be parsed
fix_build_errors(errs, answer) ==
    IF errs = <<>> THEN <<>>
    ELSE IF answer \in {"fixes", "invalid"}
         THEN <<[for |-> errs, valid |-> WellFormed(answer)]>>
    ELSE <<>>

\* whether fix_build_errors reaches llm.invoke
OracleInvoked(errs) == errs # <<>>

\* what one call of apply_fixes can do: its return value, whether it wrote to
\* the workspace and whether it left a .bak file
ApplyOutcomes ==
    {o \in [ret : BOOLEAN, wrote : BOOLEAN, bak : BOOLEAN] : o.bak => o.wrote}

----------------------------------------------------------------------------
(* fix_and_build *)

\* if not check_maven_available(): return False, "Maven is not available ..."
check_maven_available(mvn) ==
    /\ pc = "fb_call"
    /\ innerRuns' = innerRuns + 1
    /\ compileStarts' = 0
    /\ packageStarts' = 0
    /\ oracleCalls' = 0
    /\ onSuccessCalls' = 0
    /\ output' = Unbound
    /\ package_output' = Unbound
    /\ failing' = Unbound
    /\ errors' = <<>>
    /\ fixes' = <<>>
    /\ lastCompile' = NoPhase
    /\ lastPackage' = NoPackage
    /\ lastRepair' = "none"
    /\ IF mvn
       THEN /\ attempt' = 0
            /\ pc' = "fb_loop"
            /\ fb_result' = NoResult
            /\ lastRunEnd' = "running"
       ELSE /\ attempt' = attempt
            /\ pc' = "fb_done"
            /\ fb_result' = [set |-> TRUE, success |-> FALSE, log |-> <<MavenUnavailableMsg>>]
            /\ lastRunEnd' = "unavailable"
    /\ UNCHANGED <<mode, max_regeneration_attempts, regeneration_attempt, max_attempts,
                   has_on_success, bd_result, build_output, regen_result, bakFiles,
                   genCalls, wsVersion, genAfter>>
    /\ UNCHANGED <<applyVars, extractVars, serviceVars>>

\* an off-by-one loop bound: range(max_attempts + 1)
LoopContinuesOffByOne == attempt <= max_attempts

\* for attempt in range(max_attempts): whether another iteration starts
LoopContinues == attempt < max_attempts

\* a loop that starts the package phase whatever the compile phase returned
AfterCompileUnconditional(o) == "fb_package"

\* where the loop goes after the compile phase: package on success, else diagnosis
AfterCompile(o) == IF BuildSuccess(o) THEN "fb_package" ELSE "fb_diagnose"

\* for attempt in range(max_attempts): build_success, stdout, stderr = run_maven_compile(code_dir)
LoopCompile(kind) ==
    /\ pc = "fb_loop"
    /\ LoopContinues
    /\ output' = run_maven_compile(kind)
    /\ compileStarts' = compileStarts + 1
    /\ lastCompile' = [set |-> TRUE, run |-> innerRuns, attempt |-> attempt,
                       ok |-> BuildSuccess(output'), ws |-> wsVersion]
    /\ pc' = AfterCompile(output')
    /\ failing' = IF pc' = "fb_diagnose" THEN output' ELSE failing
    /\ UNCHANGED <<mode, max_regeneration_attempts, regeneration_attempt, max_attempts,
                   attempt, has_on_success, package_output, errors, fixes, fb_result,
                   bd_result, build_output, regen_result, bakFiles>>
    /\ UNCHANGED <<packageStarts, genCalls, innerRuns, oracleCalls, onSuccessCalls,
                   wsVersion, lastPackage, lastRunEnd, genAfter, lastRepair>>
    /\ UNCHANGED <<applyVars, extractVars, serviceVars>>

\* a loop that lets the timeout of the package phase escape as an exception
AfterPackageTimeoutRaises(o) ==
    IF o.kind = "timeout" THEN "raised"
    ELSE IF BuildSuccess(o) THEN "fb_success" ELSE "fb_diagnose"

\* a loop that takes the package phase for passed whatever it returned
AfterPackageIgnoresFailure(o) == "fb_success"

\* where the loop goes after the package phase
AfterPackage(o) == IF BuildSuccess(o) THEN "fb_success" ELSE "fb_diagnose"

\* package_success, package_stdout, package_stderr = run_maven_package(code_dir)
LoopPackage(kind) ==
    /\ pc = "fb_package"
    /\ package_output' = run_maven_package(kind)
    /\ packageStarts' = packageStarts + 1
    /\ lastPackage' = [set |-> TRUE, run |-> innerRuns, attempt |-> attempt,
                       ok |-> BuildSuccess(package_output'), ws |-> wsVersion,
                       compile |-> lastCompile]
    /\ pc' = AfterPackage(package_output')
    /\ failing' = IF pc' = "fb_diagnose" THEN package_output' ELSE failing
    /\ UNCHANGED <<mode, max_regeneration_attempts, regeneration_attempt, max_attempts,
                   attempt, has_on_success, output, errors, fixes, fb_result,
                   bd_result, build_output, regen_result, bakFiles>>
    /\ UNCHANGED <<compileStarts, genCalls, innerRuns, oracleCalls, onSuccessCalls,
                   wsVersion, lastCompile, lastRunEnd, genAfter, lastRepair>>
    /\ UNCHANGED <<applyVars, extractVars, serviceVars>>

\* return True, output + "\n" + package_output
SuccessLog == <<output, package_output>>

\* if on_success: on_success(); return True, ...   (the callback may raise)
LoopSuccess(raises) ==
    /\ pc = "fb_success"
    /\ raises => has_on_success
    /\ onSuccessCalls' = IF has_on_success THEN onSuccessCalls + 1 ELSE onSuccessCalls
    /\ IF raises
       THEN /\ pc' = "raised"
            /\ fb_result' = fb_result
            /\ lastRunEnd' = "raised"
       ELSE /\ pc' = "fb_done"
            /\ fb_result' = [set |-> TRUE, success |-> TRUE, log |-> SuccessLog]
            /\ lastRunEnd' = "success"
    /\ UNCHANGED <<mode, max_regeneration_attempts, regeneration_attempt, max_attempts,
                   attempt, has_on_success, output, package_output, failing, errors, fixes,
                   bd_result, build_output, regen_result, bakFiles>>
    /\ UNCHANGED <<compileStarts, packageStarts, genCalls, innerRuns, oracleCalls,
                   wsVersion, lastCompile, lastPackage, genAfter, lastRepair>>
    /\ UNCHANGED <<applyVars, extractVars, serviceVars>>

\* a loop that forgets to count the attempt
SameAttempt(a) == a

\* continue: the for loop takes the next value of range(max_attempts)
NextAttempt(a) == a + 1

\* a controller that keeps the diagnostics of earlier attempts
DiagnosticsAccumulated(old, new) == old \o new

\* errors = extract_build_errors(...): the local is assigned anew
Diagnostics(old, new) == new

\* a controller that asks the oracle whatever the extraction gave
AfterDiagnoseAlwaysProposes(errs) == "fb_propose"

\* if errors: fixes = fix_build_errors(...)  else: continue
AfterDiagnose(errs) == IF errs # <<>> THEN "fb_propose" ELSE "fb_loop"

\* errors = extract_build_errors(...); if errors: ... else: continue
LoopDiagnose ==
    /\ pc = "fb_diagnose"
    /\ errors' = Diagnostics(errors, extract_build_errors(failing))
    /\ pc' = AfterDiagnose(errors')
    /\ IF pc' = "fb_loop"
       THEN /\ attempt' = NextAttempt(attempt)
            /\ lastRepair' = "blind"
       ELSE /\ attempt' = attempt
            /\ lastRepair' = "none"
    /\ UNCHANGED <<mode, max_regeneration_attempts, regeneration_attempt, max_attempts,
                   has_on_success, output, package_output, failing, fixes, fb_result,
                   bd_result, build_output, regen_result, bakFiles>>
    /\ UNCHANGED <<compileStarts, packageStarts, genCalls, innerRuns, oracleCalls,
                   onSuccessCalls, wsVersion, lastCompile, lastPackage, lastRunEnd, genAfter>>
    /\ UNCHANGED <<applyVars, extractVars, serviceVars>>

\* fixes = fix_build_errors(errors, code_dir); if fixes: ... else: continue
LoopPropose(answer) ==
    /\ pc = "fb_propose"
    /\ fixes' = fix_build_errors(errors, answer)
    /\ oracleCalls' = IF OracleInvoked(errors) THEN oracleCalls + 1 ELSE oracleCalls
    /\ IF fixes' # <<>>
       THEN /\ pc' = "fb_apply"
            /\ attempt' = attempt
            /\ lastRepair' = "none"
       ELSE /\ pc' = "fb_loop"
            /\ attempt' = NextAttempt(attempt)
            /\ lastRepair' = "no_fixes"
    /\ UNCHANGED <<mode, max_regeneration_attempts, regeneration_attempt, max_attempts,
                   has_on_success, output, package_output, failing, errors, fb_result,
                   bd_result, build_output, regen_result, bakFiles>>
    /\ UNCHANGED <<compileStarts, packageStarts, genCalls, innerRuns, onSuccessCalls,
                   wsVersion, lastCompile, lastPackage, lastRunEnd, genAfter>>
    /\ UNCHANGED <<applyVars, extractVars, serviceVars>>

\* a controller that packages what it has just patched without compiling it
AfterApplyPackages(o) == "fb_package"

\* a controller that gives up when apply_fixes reports an error
AfterApplyAbortsOnFailure(o) == IF o.ret THEN "fb_loop" ELSE "raised"

\* both branches of `if apply_fixes(fixes, code_dir):` end with continue
AfterApply(o) == "fb_loop"

\* if apply_fixes(fixes, code_dir): continue  else: continue
LoopApply(o) ==
    /\ pc = "fb_apply"
    /\ wsVersion' = IF o.wrote THEN wsVersion + 1 ELSE wsVersion
    /\ bakFiles' = (bakFiles \/ o.bak)
    /\ pc' = AfterApply(o)
    /\ attempt' = NextAttempt(attempt)
    /\ lastRepair' = IF o.ret THEN "applied" ELSE "apply_failed"
    /\ UNCHANGED <<mode, max_regeneration_attempts, regeneration_attempt, max_attempts,
                   has_on_success, output, package_output, failing, errors, fixes,
                   fb_result, bd_result, build_output, regen_result>>
    /\ UNCHANGED <<compileStarts, packageStarts, genCalls, innerRuns, oracleCalls,
                   onSuccessCalls, lastCompile, lastPackage, lastRunEnd, genAfter>>
    /\ UNCHANGED <<applyVars, extractVars, serviceVars>>

\* return False, output
ExhaustedLog == <<output>>

\* the for loop is over: print(...); return False, output
\* (with max_attempts = 0 `output` was never assigned: UnboundLocalError)
LoopExhausted ==
    /\ pc = "fb_loop"
    /\ ~LoopContinues
    /\ IF output = Unbound
       THEN /\ pc' = "raised"
            /\ fb_result' = fb_result
            /\ lastRunEnd' = "raised"
       ELSE /\ pc' = "fb_done"
            /\ fb_result' = [set |-> TRUE, success |-> FALSE, log |-> ExhaustedLog]
            /\ lastRunEnd' = "exhausted"
    /\ UNCHANGED <<mode, max_regeneration_attempts, regeneration_attempt, max_attempts,
                   attempt, has_on_success, output, package_output, failing, errors, fixes,
                   bd_result, build_output, regen_result, bakFiles>>
    /\ UNCHANGED <<compileStarts, packageStarts, genCalls, innerRuns, oracleCalls,
                   onSuccessCalls, wsVersion, lastCompile, lastPackage, genAfter, lastRepair>>
    /\ UNCHANGED <<applyVars, extractVars, serviceVars>>

fix_and_build ==
    \/ \E mvn \in BOOLEAN : check_maven_available(mvn)
    \/ \E kind \in BuildKinds : LoopCompile(kind)
    \/ \E kind \in BuildKinds : LoopPackage(kind)
    \/ \E raises \in BOOLEAN : LoopSuccess(raises)
    \/ LoopDiagnose
    \/ \E answer \in OracleAnswers : LoopPropose(answer)
    \/ \E o \in ApplyOutcomes : LoopApply(o)
    \/ LoopExhausted


----------------------------------------------------------------------------
(* regenerate_until_success and what it calls *)

NoDeploy == [set |-> FALSE, success |-> FALSE, output |-> <<>>, health |-> FALSE]

\* what generate_and_apply_code can do: return after applying the changeset,
\* raise out of apply_structured_changes part way, or raise out of generate_code
GenerateOutcomes == {"applied", "apply_raised", "generate_raised"}

\* for regeneration_attempt in range(max_regeneration_attempts):
\*     file_instructions = generate_and_apply_code(user_req, config)
\*     ... = build_and_cleanup(config, max_attempts=3)
generate_and_apply_code(g) ==
    /\ pc = "rg_loop"
    /\ regeneration_attempt < max_regeneration_attempts
    /\ genCalls' = genCalls + 1
    /\ genAfter' = IF genCalls > 0 THEN genAfter \cup {lastRunEnd} ELSE genAfter
    /\ wsVersion' = IF g = "generate_raised" THEN wsVersion ELSE wsVersion + 1
    /\ IF g = "applied"
       THEN /\ pc' = "fb_call"
            /\ max_attempts' = ServiceMaxAttempts
       ELSE /\ pc' = "raised"
            /\ max_attempts' = max_attempts
    /\ UNCHANGED <<mode, max_regeneration_attempts, regeneration_attempt, attempt,
                   has_on_success, output, package_output, failing, errors, fixes,
                   fb_result, bd_result, build_output, regen_result, bakFiles>>
    /\ UNCHANGED <<compileStarts, packageStarts, innerRuns, oracleCalls, onSuccessCalls,
                   lastCompile, lastPackage, lastRunEnd, lastRepair>>
    /\ UNCHANGED <<applyVars, extractVars, serviceVars>>

\* build_and_deploy(code_dir, max_attempts): runs fix_and_build and, when the
\* build succeeded, deploys and probes the health endpoint; its first two
\* results are the success and the log of fix_and_build
build_and_deploy(health) ==
    /\ pc = "fb_done"
    /\ mode = "service"
    /\ health => fb_result.success
    /\ bd_result' = [set |-> TRUE, success |-> fb_result.success,
                     output |-> fb_result.log, health |-> health]
    /\ pc' = "rg_cleanup"
    /\ UNCHANGED <<mode, max_regeneration_attempts, regeneration_attempt, max_attempts,
                   attempt, has_on_success, output, package_output, failing, errors, fixes,
                   fb_result, build_output, regen_result, bakFiles>>
    /\ UNCHANGED obsVars
    /\ UNCHANGED <<applyVars, extractVars, serviceVars>>

\* build_and_cleanup: if build_success: delete every .bak file under the root
build_and_cleanup ==
    /\ pc = "rg_cleanup"
    /\ build_output' = bd_result.output
    /\ IF bd_result.success
       THEN /\ bakFiles' = FALSE
            /\ wsVersion' = IF bakFiles THEN wsVersion + 1 ELSE wsVersion
       ELSE /\ bakFiles' = bakFiles
            /\ wsVersion' = wsVersion
    /\ pc' = "rg_check"
    /\ UNCHANGED <<mode, max_regeneration_attempts, regeneration_attempt, max_attempts,
                   attempt, has_on_success, output, package_output, failing, errors, fixes,
                   fb_result, bd_result, regen_result>>
    /\ UNCHANGED <<compileStarts, packageStarts, genCalls, innerRuns, oracleCalls,
                   onSuccessCalls, lastCompile, lastPackage, lastRunEnd, genAfter, lastRepair>>
    /\ UNCHANGED <<applyVars, extractVars, serviceVars>>

\* 'regeneration_attempts': regeneration_attempt + 1
SuccessAttempts == regeneration_attempt + 1

\* if build_success: return {...}  else: next iteration
RegenCheck ==
    /\ pc = "rg_check"
    /\ IF bd_result.success
       THEN /\ regen_result' = [set |-> TRUE, success |-> TRUE, build_output |-> build_output,
                                regeneration_attempts |-> SuccessAttempts]
            /\ pc' = "done"
            /\ regeneration_attempt' = regeneration_attempt
       ELSE /\ regen_result' = regen_result
            /\ pc' = "rg_loop"
            /\ regeneration_attempt' = regeneration_attempt + 1
    /\ UNCHANGED <<mode, max_regeneration_attempts, max_attempts, attempt, has_on_success,
                   output, package_output, failing, errors, fixes, fb_result, bd_result,
                   build_output, bakFiles>>
    /\ UNCHANGED obsVars
    /\ UNCHANGED <<applyVars, extractVars, serviceVars>>

\* after the loop: return {'success': False, ..., 'build_output': build_output,
\* 'regeneration_attempts': max_regeneration_attempts}
\* (with max_regeneration_attempts = 0 `build_output` was never assigned)
RegenExhausted ==
    /\ pc = "rg_loop"
    /\ ~(regeneration_attempt < max_regeneration_attempts)
    /\ IF genCalls = 0
       THEN /\ pc' = "raised"
            /\ regen_result' = regen_result
       ELSE /\ pc' = "done"
            /\ regen_result' = [set |-> TRUE, success |-> FALSE, build_output |-> build_output,
                                regeneration_attempts |-> max_regeneration_attempts]
    /\ UNCHANGED <<mode, max_regeneration_attempts, regeneration_attempt, max_attempts,
                   attempt, has_on_success, output, package_output, failing, errors, fixes,
                   fb_result, bd_result, build_output, bakFiles>>
    /\ UNCHANGED obsVars
    /\ UNCHANGED <<applyVars, extractVars, serviceVars>>

regenerate_until_success ==
    \/ \E g \in GenerateOutcomes : generate_and_apply_code(g)
    \/ \E health \in BOOLEAN : build_and_deploy(health)
    \/ build_and_cleanup
    \/ RegenCheck
    \/ RegenExhausted

----------------------------------------------------------------------------
(* modernize_project around regenerate_until_success *)

\* the bodies of the requests: each of 'requestMessage' and 'githubRepo' absent
\* (<<"None">>, what data.get gives then), empty or given, 'githubRepo' without, with one and with two '/'
Requests ==
    [requestMessage : {<<"None">>, <<>>, <<"q">>},
     githubRepo : {<<"None">>, <<>>, <<"r">>, <<"u", "/", "r">>, <<"u", "/", "r", "/", "x">>},
     flowchart : {FALSE}]

\* validate_modernize_request: the tuple it returns, three values on an error
\* and four otherwise
validate_modernize_request(data) ==
    LET user_req == data.requestMessage
        repo_path == data.githubRepo
        flow_create == data.flowchart
    IN IF user_req \in {<<"None">>, <<>>} \/ repo_path \in {<<"None">>, <<>>}
       THEN <<"missing_fields", "None", "None">>
       ELSE IF Cardinality({i \in DOMAIN repo_path : repo_path[i] = "/"}) # 1
       THEN <<"invalid_format", "None", "None">>
       ELSE <<"None", user_req, repo_path, flow_create>>

\* error_response, user_req, repo_path, flow_create = validate_modernize_request(data)
\* if error_response: return jsonify(error_response), 400
\* (unpacking a tuple of three values into four names raises ValueError, which
\* the except clause of modernize_project answers with status 500)
ValidateRequest ==
    /\ pc = "mp_request"
    /\ LET t == validate_modernize_request(request) IN
       IF Len(t) # 4
       THEN /\ response' = [status |-> 500, body |-> "exception"]
            /\ pc' = "responded"
       ELSE IF t[1] # "None"
       THEN /\ response' = [status |-> 400, body |-> t[1]]
            /\ pc' = "responded"
       ELSE /\ response' = response
            /\ pc' = "mp_clone"
    /\ UNCHANGED <<mode, max_regeneration_attempts, regeneration_attempt, max_attempts,
                   attempt, has_on_success, output, package_output, failing, errors, fixes,
                   fb_result, bd_result, build_output, regen_result, bakFiles>>
    /\ UNCHANGED obsVars
    /\ UNCHANGED <<request, cloned, committed, responses, gpc, retry, raw_output,
                   gen_result, llmCalls>>
    /\ UNCHANGED <<applyVars, extractVars>>

\* config = load_and_update_config(repo_path); git_handler, repo =
\* clone_or_pull_repo(config); either may raise
clone_or_pull_repo(ok) ==
    /\ pc = "mp_clone"
    /\ cloned' = TRUE
    /\ pc' = IF ok THEN "rg_loop" ELSE "raised"
    /\ UNCHANGED <<mode, max_regeneration_attempts, regeneration_attempt, max_attempts,
                   attempt, has_on_success, output, package_output, failing, errors, fixes,
                   fb_result, bd_result, build_output, regen_result, bakFiles>>
    /\ UNCHANGED obsVars
    /\ UNCHANGED <<request, response, committed, responses, gpc, retry, raw_output,
                   gen_result, llmCalls>>
    /\ UNCHANGED <<applyVars, extractVars>>

\* a handler that commits whatever regenerate_until_success returned
CommitAlways(result) == TRUE

\* if regen_result['success']:
CommitDue(result) == result.success

\* the end of modernize_project.  After success: the merge request
\* description, apply_and_commit_changes, create_merge_request and the answer
\* (a call before or after the commit may raise); after failure: the answer
\* with status 500; after an exception: the answer of the except clause
Respond(o) ==
    /\ mode = "service"
    /\ pc \in {"done", "raised"}
    /\ pc' = "responded"
    /\ IF pc = "raised"
       THEN /\ response' = [status |-> 500, body |-> "exception"]
            /\ committed' = committed
       ELSE IF CommitDue(regen_result)
       THEN /\ committed' = (o # "raised_before_commit")
            /\ response' = IF o = "mr_created"
                           THEN [status |-> 200, body |-> "success"]
                           ELSE [status |-> 500, body |-> "exception"]
       ELSE /\ response' = [status |-> 500, body |-> "failure"]
            /\ committed' = committed
    /\ UNCHANGED <<mode, max_regeneration_attempts, regeneration_attempt, max_attempts,
                   attempt, has_on_success, output, package_output, failing, errors, fixes,
                   fb_result, bd_result, build_output, regen_result, bakFiles>>
    /\ UNCHANGED obsVars
    /\ UNCHANGED <<request, cloned, responses, gpc, retry, raw_output, gen_result, llmCalls>>
    /\ UNCHANGED <<applyVars, extractVars>>

modernize_project ==
    \/ ValidateRequest
    \/ \E ok \in BOOLEAN : clone_or_pull_repo(ok)
    \/ \E o \in {"mr_created", "raised_before_commit", "raised_after_commit"} : Respond(o)

----------------------------------------------------------------------------
(* The control loops as a specification *)

\* no request is being served and generate_code is not running
ServiceIdle ==
    /\ request = "none"
    /\ response = [status |-> 0, body |-> "none"]
    /\ cloned = FALSE
    /\ committed = FALSE
    /\ responses = <<>>
    /\ gpc = "idle"
    /\ retry = 0
    /\ raw_output = <<>>
    /\ gen_result = [kind |-> "none", value |-> <<>>]
    /\ llmCalls = 0

ExtractIdle ==
    /\ ex_output = <<>>
    /\ ex_pc = "idle"
    /\ ex_errors = <<>>
    /\ files_to_fix = {}
    /\ file_contents = <<>>

ApplyIdle ==
    /\ applier = "none"
    /\ apc = "idle"
    /\ fs = <<>>
    /\ fs0 = <<>>
    /\ fs1 = <<>>
    /\ batch = <<>>
    /\ idx = 0
    /\ pass = 0
    /\ target = <<>>
    /\ pre = <<>>
    /\ executed = {}
    /\ attempted = {}
    /\ skipped = {}
    /\ applyRet = "none"
    /\ firstRet = "none"

Init ==
    /\ mode \in {"service", "direct"}
    /\ max_regeneration_attempts \in
          (IF mode = "service" THEN 0..MaxRegenerationAttempts ELSE {0})
    /\ max_attempts \in (IF mode = "direct" THEN 0..MaxAttempts ELSE {ServiceMaxAttempts})
    /\ has_on_success \in (IF mode = "direct" THEN BOOLEAN ELSE {FALSE})
    /\ pc = IF mode = "service" THEN "mp_request" ELSE "fb_call"
    /\ regeneration_attempt = 0
    /\ attempt = 0
    /\ output = Unbound
    /\ package_output = Unbound
    /\ failing = Unbound
    /\ errors = <<>>
    /\ fixes = <<>>
    /\ fb_result = NoResult
    /\ bd_result = NoDeploy
    /\ build_output = <<>>
    /\ regen_result = NoRegenResult
    /\ bakFiles = FALSE
    /\ compileStarts = 0
    /\ packageStarts = 0
    /\ genCalls = 0
    /\ innerRuns = 0
    /\ oracleCalls = 0
    /\ onSuccessCalls = 0
    /\ wsVersion = 0
    /\ lastCompile = NoPhase
    /\ lastPackage = NoPackage
    /\ lastRunEnd = "none"
    /\ genAfter = {}
    /\ lastRepair = "none"
    /\ ApplyIdle
    /\ ExtractIdle
    /\ request \in (IF mode = "service" THEN Requests ELSE {"none"})
    /\ response = [status |-> 0, body |-> "none"]
    /\ cloned = FALSE
    /\ committed = FALSE
    /\ responses = <<>>
    /\ gpc = "idle"
    /\ retry = 0
    /\ raw_output = <<>>
    /\ gen_result = [kind |-> "none", value |-> <<>>]
    /\ llmCalls = 0

Next ==
    \/ fix_and_build
    \/ regenerate_until_success
    \/ modernize_project

Spec == Init /\ [][Next]_vars


----------------------------------------------------------------------------
(* Paths: strings are sequences of one-character strings, so that the        *)
(* functions of os.path act on them as they act on Python strings            *)

\* the "key is absent from the dict" value of an instruction's "action"
NoKey == "<absent>"

\* the "key is absent from the dict" value of an instruction's "content"
NoContent == <<"<absent>">>

DotDot == <<".", ".">>

\* s.startswith(p)
startswith(s, p) == Len(p) <= Len(s) /\ SubSeq(s, 1, Len(p)) = p

\* os.path.isabs
isabs(s) == startswith(s, <<"/">>)

RECURSIVE SplitAcc(_, _, _, _)
SplitAcc(s, i, cur, acc) ==
    IF i > Len(s) THEN Append(acc, cur)
    ELSE IF s[i] = "/" THEN SplitAcc(s, i + 1, <<>>, Append(acc, cur))
    ELSE SplitAcc(s, i + 1, Append(cur, s[i]), acc)

\* path.split('/')
split(s) == SplitAcc(s, 1, <<>>, <<>>)

RECURSIVE JoinComps(_, _)
\* '/'.join(comps[i:])
JoinComps(comps, i) ==
    IF i > Len(comps) THEN <<>>
    ELSE IF i = Len(comps) THEN comps[i]
    ELSE comps[i] \o <<"/">> \o JoinComps(comps, i + 1)

RECURSIVE NormComps(_, _, _, _)
\* the loop of posixpath.normpath over the components
NormComps(comps, i, initial_slashes, new) ==
    IF i > Len(comps) THEN new
    ELSE LET comp == comps[i] IN
         IF comp = <<>> \/ comp = <<".">>
         THEN NormComps(comps, i + 1, initial_slashes, new)
         ELSE IF \/ comp # DotDot
                 \/ (~initial_slashes /\ new = <<>>)
                 \/ (new # <<>> /\ new[Len(new)] = DotDot)
         THEN NormComps(comps, i + 1, initial_slashes, Append(new, comp))
         ELSE IF new # <<>>
         THEN NormComps(comps, i + 1, initial_slashes, SubSeq(new, 1, Len(new) - 1))
         ELSE NormComps(comps, i + 1, initial_slashes, new)

\* os.path.normpath
normpath(path) ==
    IF path = <<>> THEN <<".">>
    ELSE LET initial_slashes == isabs(path)
             joined == JoinComps(NormComps(split(path), 1, initial_slashes, <<>>), 1)
             r == IF initial_slashes THEN <<"/">> \o joined ELSE joined
         IN IF r = <<>> THEN <<".">> ELSE r

\* os.path.join(a, b)
join(a, b) ==
    IF isabs(b) THEN b
    ELSE IF a = <<>> \/ a[Len(a)] = "/" THEN a \o b
    ELSE a \o <<"/">> \o b

\* the working directory of the process
Cwd == <<"/">>

\* os.path.abspath
abspath(path) == normpath(IF isabs(path) THEN path ELSE join(Cwd, path))

RECURSIVE LastSlash(_, _)
\* p.rfind('/') + 1, searching down from i
LastSlash(p, i) == IF i = 0 THEN 0 ELSE IF p[i] = "/" THEN i ELSE LastSlash(p, i - 1)

RECURSIVE RStripSlashes(_)
RStripSlashes(s) ==
    IF s # <<>> /\ s[Len(s)] = "/" THEN RStripSlashes(SubSeq(s, 1, Len(s) - 1)) ELSE s

\* os.path.dirname
dirname(p) ==
    LET head == SubSeq(p, 1, LastSlash(p, Len(p)))
    IN IF RStripSlashes(head) # <<>> THEN RStripSlashes(head) ELSE head

\* os.path.basename
basename(p) == SubSeq(p, LastSlash(p, Len(p)) + 1, Len(p))

\* full_path + ".bak"
BakSuffix == <<".", "b", "a", "k">>

bak(p) == p \o BakSuffix

\* the workspace root: code_dir of apply_fixes, repo_dir of apply_structured_changes
Root == <<"/", "r">>

\* whether the absolute, normalised path p is the root or lies under it
UnderRoot(p) == p = Root \/ startswith(p, Root \o <<"/">>)

----------------------------------------------------------------------------
(* The file system: a function from the absolute normalised paths that exist *)
(* to nodes.  Every operation gives [ok, fs]: ok = FALSE is the OSError the  *)
(* call raises, fs the file system it leaves.                                 *)

File(c) == [kind |-> "file", content |-> c]

Dir == [kind |-> "dir", content |-> <<>>]

\* the path the kernel reaches for an absolute path: every directory named
\* before a ".." exists in the cases modelled, so resolution is lexical
Resolve(p) == normpath(p)

\* os.path.exists
exists(f, p) == Resolve(p) \in DOMAIN f

\* os.path.isdir
isdir(f, p) == exists(f, p) /\ f[Resolve(p)].kind = "dir"

Put(f, p, node) == [q \in DOMAIN f \cup {p} |-> IF q = p THEN node ELSE f[q]]

Ok(f) == [ok |-> TRUE, fs |-> f]

Err(f) == [ok |-> FALSE, fs |-> f]

\* with open(p, 'w') as f: f.write(content)
\* FileNotFoundError / NotADirectoryError without a parent directory,
\* IsADirectoryError on a directory
open_w(f, p, content) ==
    LET q == Resolve(p) IN
    IF ~isdir(f, dirname(q)) \/ isdir(f, q) THEN Err(f)
    ELSE Ok(Put(f, q, File(content)))

RECURSIVE MakeDirsFrom(_, _, _)
\* creates the directories named by the first i, i+1, ... components of comps
MakeDirsFrom(f, comps, i) ==
    IF i > Len(comps) THEN Ok(f)
    ELSE LET q == <<"/">> \o JoinComps(SubSeq(comps, 1, i), 1) IN
         IF q \in DOMAIN f
         THEN IF f[q].kind = "dir" THEN MakeDirsFrom(f, comps, i + 1) ELSE Err(f)
         ELSE MakeDirsFrom(Put(f, q, Dir), comps, i + 1)

\* os.makedirs(p, exist_ok=True): FileExistsError / NotADirectoryError when p
\* or one of its ancestors is a file
makedirs(f, p) ==
    LET q == Resolve(p) IN
    IF q = <<"/">> THEN Ok(f)
    ELSE MakeDirsFrom(f, split(SubSeq(q, 2, Len(q))), 1)

\* os.remove: FileNotFoundError on a missing path, IsADirectoryError on a directory
remove(f, p) ==
    LET q == Resolve(p) IN
    IF q \notin DOMAIN f \/ f[q].kind = "dir" THEN Err(f)
    ELSE Ok([r \in DOMAIN f \ {q} |-> f[r]])

\* shutil.rmtree on an existing directory
rmtree(f, p) ==
    LET q == Resolve(p) IN
    Ok([r \in {x \in DOMAIN f : x # q /\ ~startswith(x, q \o <<"/">>)} |-> f[r]])

\* shutil.copy2(src, dst): into the directory dst when dst is one; raises when
\* src is missing or a directory
copy2(f, src, dst) ==
    LET s == Resolve(src)
        d == IF isdir(f, dst) THEN join(Resolve(dst), basename(s)) ELSE Resolve(dst)
    IN IF s \notin DOMAIN f \/ f[s].kind = "dir" THEN Err(f)
       ELSE open_w(f, d, f[s].content)

----------------------------------------------------------------------------
(* Changesets and workspaces the appliers are run on *)

Old == <<"old">>

N1 == <<"n1">>

N2 == <<"n2">>

\* the instructions of a changeset: every path of InstrPaths (a file of the
\* root, a file of a sub-directory, that sub-directory, and a file of the
\* sibling directory /r2, whose name starts with the root's name) with every
\* recognised action; instructions on a file above the root (PathAbove) and
\* on an absolute path outside the root (PathAbsolute); and instructions with
\* a second content, without "action", with an unrecognised action and
\* without "content"
Instrs ==
    LET InstrPaths ==
            { <<"a">>,
              <<"d", "/", "a">>,
              <<"d">>,
              <<".", ".", "/", "r", "2", "/", "a">> }
        PathAbove == <<".", ".", "/", "x">>
        PathAbsolute == <<"/", "e", "/", "x">>
    IN
    {[path |-> p, action |-> a, content |-> N1] :
        p \in InstrPaths, a \in {"create", "update", "delete"}}
    \cup {[path |-> PathAbove, action |-> "update", content |-> N1],
          [path |-> PathAbove, action |-> "delete", content |-> N1],
          [path |-> PathAbsolute, action |-> "create", content |-> N1]}
    \cup {[path |-> <<"a">>, action |-> "update", content |-> N2],
          [path |-> <<"a">>, action |-> NoKey, content |-> N1],
          [path |-> <<"d", "/", "a">>, action |-> "rename", content |-> N1],
          [path |-> <<"a">>, action |-> "update", content |-> NoContent]}

RECURSIVE SeqsUpTo(_, _)
\* the sequences over S of length at most n
SeqsUpTo(S, n) ==
    IF n = 0 THEN {<<>>}
    ELSE LET shorter == SeqsUpTo(S, n - 1)
         IN shorter \cup {Append(b, x) : b \in {c \in shorter : Len(c) = n - 1}, x \in S}

Batches == SeqsUpTo(Instrs, MaxBatch)

\* a cloned repository with files, and an empty one; beside the root lie the
\* sibling directory /r2 and the file /x
Workspaces ==
    { [p \in { <<"/">>, <<"/", "r">>, <<"/", "r", "/", "a">>, <<"/", "r", "/", "d">>,
               <<"/", "r", "/", "d", "/", "a">>, <<"/", "r", "2">>,
               <<"/", "r", "2", "/", "a">>, <<"/", "x">> } |->
          IF p \in { <<"/">>, <<"/", "r">>, <<"/", "r", "/", "d">>, <<"/", "r", "2">> }
          THEN Dir ELSE File(Old)],
      [p \in { <<"/">>, <<"/", "r">>, <<"/", "r", "2">>, <<"/", "x">> } |->
          IF p = <<"/", "x">> THEN File(Old) ELSE Dir] }

Appliers == {"fixes", "structured", "structured_main"}

----------------------------------------------------------------------------
(* apply_fixes, one instruction in two steps *)

\* full_path.startswith(os.path.abspath(code_dir))
InsideProject(full_path, code_dir) == startswith(full_path, abspath(code_dir))

\* file_path = os.path.normpath(fix["path"]); full_path = abspath(join(code_dir,
\* file_path)) unless file_path is absolute
FullPath(fix, code_dir) ==
    LET file_path == normpath(fix.path)
    IN IF ~isabs(file_path) THEN abspath(join(code_dir, file_path)) ELSE file_path

\* os.path.exists(full_path) and fix["action"] in ("update", "delete")
NeedsBackup(f, full_path, fix) ==
    exists(f, full_path) /\ fix.action \in {"update", "delete"}

\* the first half of the loop body: the path, the containment check and the
\* backup.  [ok, fs, skip]: ok = FALSE when an exception leaves the loop
\* (fix["action"] is evaluated, and raises KeyError, only when the path exists)
FixResolve(f, fix, code_dir) ==
    LET full_path == FullPath(fix, code_dir) IN
    IF ~InsideProject(full_path, code_dir)
    THEN [ok |-> TRUE, fs |-> f, skip |-> TRUE]
    ELSE IF exists(f, full_path) /\ fix.action = NoKey
    THEN [ok |-> FALSE, fs |-> f, skip |-> FALSE]
    ELSE IF NeedsBackup(f, full_path, fix)
    THEN LET r == copy2(f, full_path, bak(full_path))
         IN [ok |-> r.ok, fs |-> r.fs, skip |-> FALSE]
    ELSE [ok |-> TRUE, fs |-> f, skip |-> FALSE]

\* content = fix.get("content", "")
FixContent(fix) == IF fix.content = NoContent THEN <<>> ELSE fix.content

\* the second half of the loop body: action = fix["action"] and its branch
FixWrite(f, fix, full_path) ==
    IF fix.action = NoKey THEN Err(f)
    ELSE IF fix.action = "update" THEN open_w(f, full_path, FixContent(fix))
    ELSE IF fix.action = "create"
    THEN LET m == makedirs(f, dirname(full_path))
         IN IF m.ok THEN open_w(m.fs, full_path, FixContent(fix)) ELSE m
    ELSE IF fix.action = "delete"
    THEN IF exists(f, full_path) THEN remove(f, full_path) ELSE Ok(f)
    ELSE Ok(f)

----------------------------------------------------------------------------
(* apply_structured_changes (app.py and main.py), one instruction in two steps *)

\* path = os.path.join(repo_dir, file["path"])
StructuredPath(file, repo_dir) == join(repo_dir, file.path)

\* os.makedirs(os.path.dirname(path), exist_ok=True)
StructuredResolve(f, file, repo_dir) ==
    makedirs(f, dirname(StructuredPath(file, repo_dir)))

\* the delete branch: app.py removes a directory with shutil.rmtree, main.py
\* calls os.remove whatever the target is
StructuredDelete(f, path, which) ==
    IF ~exists(f, path) THEN Ok(f)
    ELSE IF which = "structured" /\ isdir(f, path) THEN rmtree(f, path)
    ELSE remove(f, path)

\* with open(path, "w") as f: f.write(file["content"]): the file is opened,
\* and so truncated, before file["content"] raises KeyError
StructuredWriteFile(f, path, file) ==
    IF file.content = NoContent
    THEN Err(open_w(f, path, <<>>).fs)
    ELSE open_w(f, path, file.content)

\* if file["action"] == "delete": ... elif file["action"] in ("update", "create"): ...
StructuredWrite(f, file, path, which) ==
    IF file.action = NoKey THEN Err(f)
    ELSE IF file.action = "delete" THEN StructuredDelete(f, path, which)
    ELSE IF file.action \in {"update", "create"} THEN StructuredWriteFile(f, path, file)
    ELSE Ok(f)

----------------------------------------------------------------------------
(* Running an applier on a batch, twice *)

\* the path the current instruction works on
TargetOf(instr) ==
    IF applier = "fixes" THEN FullPath(instr, Root)
    ELSE Resolve(StructuredPath(instr, Root))

\* what the applier gives its caller when the loop ends normally
NormalReturn == IF applier = "fixes" THEN "True" ELSE "None"

\* what the applier gives its caller when an instruction raises: apply_fixes
\* catches the exception around the whole loop and returns False,
\* apply_structured_changes lets it propagate
AbortReturn == IF applier = "fixes" THEN "False" ELSE "raised"

\* the loop goes to the next instruction, or ends
Advance ==
    IF idx < Len(batch)
    THEN /\ idx' = idx + 1
         /\ apc' = "resolve"
         /\ applyRet' = applyRet
    ELSE /\ idx' = idx
         /\ apc' = "returned"
         /\ applyRet' = NormalReturn

\* an exception leaves the loop
Abort ==
    /\ idx' = idx
    /\ apc' = "returned"
    /\ applyRet' = AbortReturn

\* the applier is called: apply_fixes returns False at once on an empty list
ApplyEnter ==
    /\ apc = "call"
    /\ executed' = {}
    /\ attempted' = {}
    /\ pre' = fs
    /\ target' = <<>>
    /\ IF batch = <<>>
       THEN /\ apc' = "returned"
            /\ idx' = 0
            /\ applyRet' = IF applier = "fixes" THEN "False" ELSE "None"
       ELSE /\ apc' = "resolve"
            /\ idx' = 1
            /\ applyRet' = "none"
    /\ UNCHANGED <<applier, fs, fs0, fs1, batch, pass, skipped, firstRet>>
    /\ UNCHANGED <<ctlVars, obsVars, extractVars, serviceVars>>

\* first half of the loop body for batch[idx]
ApplyResolve ==
    /\ apc = "resolve"
    /\ pre' = fs
    /\ target' = TargetOf(batch[idx])
    /\ attempted' = attempted \cup {idx}
    /\ IF applier = "fixes"
       THEN LET r == FixResolve(fs, batch[idx], Root) IN
            /\ fs' = r.fs
            /\ IF ~r.ok THEN Abort /\ UNCHANGED <<executed, skipped>>
               ELSE IF r.skip
               THEN /\ Advance
                    /\ skipped' = skipped \cup {idx}
                    /\ executed' = executed \cup {idx}
               ELSE /\ apc' = "write" /\ idx' = idx /\ applyRet' = applyRet
                    /\ UNCHANGED <<executed, skipped>>
       ELSE LET r == StructuredResolve(fs, batch[idx], Root) IN
            /\ fs' = r.fs
            /\ UNCHANGED <<executed, skipped>>
            /\ IF ~r.ok THEN Abort
               ELSE apc' = "write" /\ idx' = idx /\ applyRet' = applyRet
    /\ UNCHANGED <<applier, fs0, fs1, batch, pass, firstRet>>
    /\ UNCHANGED <<ctlVars, obsVars, extractVars, serviceVars>>

\* second half of the loop body for batch[idx]
ApplyWrite ==
    /\ apc = "write"
    /\ LET r == IF applier = "fixes"
                THEN FixWrite(fs, batch[idx], target)
                ELSE StructuredWrite(fs, batch[idx], StructuredPath(batch[idx], Root), applier)
       IN /\ fs' = r.fs
          /\ IF r.ok
             THEN Advance /\ executed' = executed \cup {idx}
             ELSE Abort /\ executed' = executed
    /\ UNCHANGED <<applier, fs0, fs1, batch, pass, target, pre, attempted, skipped, firstRet>>
    /\ UNCHANGED <<ctlVars, obsVars, extractVars, serviceVars>>

\* the same batch is applied a second time to the workspace the first
\* application left
Reapply ==
    /\ apc = "returned"
    /\ pass = 1
    /\ pass' = 2
    /\ fs1' = fs
    /\ apc' = "call"
    /\ firstRet' = applyRet
    /\ UNCHANGED <<applier, fs, fs0, batch, idx, target, pre, executed, attempted,
                   skipped, applyRet>>
    /\ UNCHANGED <<ctlVars, obsVars, extractVars, serviceVars>>

\* str.endswith
endswith(s, suffix) ==
    Len(suffix) <= Len(s) /\ SubSeq(s, Len(s) - Len(suffix) + 1, Len(s)) = suffix

\* a cleanup that looks for backup files in the root directory only
DeleteTopLevelBackups(f, root) ==
    [p \in {q \in DOMAIN f : ~(/\ f[q].kind = "file"
                               /\ dirname(q) = root
                               /\ endswith(basename(q), BakSuffix))} |-> f[p]]

\* for root, dirs, files in os.walk(local_dir): os.remove every file whose
\* name ends with '.bak'
DeleteBackupFiles(f, root) ==
    [p \in {q \in DOMAIN f : ~(/\ f[q].kind = "file"
                               /\ startswith(q, root \o <<"/">>)
                               /\ endswith(basename(q), BakSuffix))} |-> f[p]]

\* the caller of the appliers after the build: the backup files are removed
\* if the build succeeded, and left if it failed; the locals of the applier
\* are gone
CleanupAfterBuild ==
    /\ apc \in {"returned", "cleaned"}
    /\ \E build_success \in BOOLEAN :
          IF build_success
          THEN /\ fs' = DeleteBackupFiles(fs, Root)
               /\ apc' = "cleaned"
          ELSE /\ fs' = fs
               /\ apc' = "kept"
    /\ pre' = fs
    /\ idx' = 0
    /\ target' = <<>>
    /\ executed' = {}
    /\ attempted' = {}
    /\ skipped' = {}
    /\ UNCHANGED <<applier, fs0, fs1, batch, pass, applyRet, firstRet>>
    /\ UNCHANGED <<ctlVars, obsVars, extractVars, serviceVars>>

CtlIdle ==
    /\ mode = "none"
    /\ pc = "idle"
    /\ max_regeneration_attempts = 0
    /\ regeneration_attempt = 0
    /\ max_attempts = 0
    /\ attempt = 0
    /\ has_on_success = FALSE
    /\ output = Unbound
    /\ package_output = Unbound
    /\ failing = Unbound
    /\ errors = <<>>
    /\ fixes = <<>>
    /\ fb_result = NoResult
    /\ bd_result = NoDeploy
    /\ build_output = <<>>
    /\ regen_result = NoRegenResult
    /\ bakFiles = FALSE
    /\ compileStarts = 0
    /\ packageStarts = 0
    /\ genCalls = 0
    /\ innerRuns = 0
    /\ oracleCalls = 0
    /\ onSuccessCalls = 0
    /\ wsVersion = 0
    /\ lastCompile = NoPhase
    /\ lastPackage = NoPackage
    /\ lastRunEnd = "none"
    /\ genAfter = {}
    /\ lastRepair = "none"

InitApply ==
    /\ CtlIdle
    /\ applier \in Appliers
    /\ batch \in Batches
    /\ fs \in Workspaces
    /\ fs0 = fs
    /\ fs1 = fs
    /\ apc = "call"
    /\ idx = 0
    /\ pass = 1
    /\ target = <<>>
    /\ pre = fs
    /\ executed = {}
    /\ attempted = {}
    /\ skipped = {}
    /\ applyRet = "none"
    /\ firstRet = "none"
    /\ ExtractIdle
    /\ ServiceIdle

NextApply ==
    \/ ApplyEnter
    \/ ApplyResolve
    \/ ApplyWrite
    \/ Reapply
    \/ CleanupAfterBuild

SpecApply == InitApply /\ [][NextApply]_vars

----------------------------------------------------------------------------
(* extract_build_errors on the text of a build: the text is a sequence of     *)
(* one-character strings, the three regular expressions are matched as        *)
(* re.findall matches them.  No element of the three patterns matches "\n",   *)
(* so a match lies within one line, and every pattern consumes the line up to *)
(* the last place where it can end: findall gives at most one match per line, *)
(* the one that starts at the leftmost marker from which the pattern matches. *)

\* the literal "[ERROR] " all three patterns start with
Marker == <<"[", "E", "R", "R", "O", "R", "]", " ">>

\* ".java" in compilation_pattern
JavaSuffix == <<".", "j", "a", "v", "a">>

\* ".jar" in dependency_pattern
JarSuffix == <<".", "j", "a", "r">>

\* " was not found" in dependency_pattern
WasNotFound == <<" ", "w", "a", "s", " ", "n", "o", "t", " ", "f", "o", "u", "n", "d">>

\* f"Missing dependency: {match}"
MissingDependency(match) ==
    <<"M", "i", "s", "s", "i", "n", "g", " ", "d", "e", "p", "e", "n", "d", "e", "n",
      "c", "y", ":", " ">> \o match

Newline == "\n"

\* characters str.strip() removes
Whitespace == {" ", "\t", "\r", "\n"}

\* \d
DigitValue == [c \in {"0", "1", "2", "3", "4", "5", "6", "7", "8", "9"} |->
                 CASE c = "0" -> 0 [] c = "1" -> 1 [] c = "2" -> 2 [] c = "3" -> 3
                   [] c = "4" -> 4 [] c = "5" -> 5 [] c = "6" -> 6 [] c = "7" -> 7
                   [] c = "8" -> 8 [] c = "9" -> 9]

\* s[a..b], empty when b < a
Slice(s, a, b) == IF b < a THEN <<>> ELSE SubSeq(s, a, b)

\* the literal lit stands in s at position i
HasAt(s, i, lit) ==
    /\ i >= 1
    /\ i + Len(lit) - 1 <= Len(s)
    /\ SubSeq(s, i, i + Len(lit) - 1) = lit

\* s matches \d+
IsDigits(s) == s # <<>> /\ \A k \in DOMAIN s : s[k] \in DOMAIN DigitValue

RECURSIVE int(_)
\* int(line), int(column) on a string of digits
int(s) == IF s = <<>> THEN 0 ELSE 10 * int(SubSeq(s, 1, Len(s) - 1)) + DigitValue[s[Len(s)]]

RECURSIVE LStrip(_)
LStrip(s) == IF s # <<>> /\ s[1] \in Whitespace THEN LStrip(Tail(s)) ELSE s

RECURSIVE RStrip(_)
RStrip(s) ==
    IF s # <<>> /\ s[Len(s)] \in Whitespace THEN RStrip(SubSeq(s, 1, Len(s) - 1)) ELSE s

\* str.strip()
strip(s) == RStrip(LStrip(s))

\* the places of the text where a line ends
NewlineAt(s) == {i \in 1..Len(s) : s[i] = Newline}

\* the k-th of these places
NthNewline(s, k) == CHOOSE i \in NewlineAt(s) : Cardinality({j \in NewlineAt(s) : j < i}) = k - 1

\* the lines of a text: the stretches "." can match
Lines(s) ==
    LET n == Cardinality(NewlineAt(s)) + 1
    IN [k \in 1..n |->
          Slice(s, IF k = 1 THEN 1 ELSE NthNewline(s, k - 1) + 1,
                   IF k = n THEN Len(s) ELSE NthNewline(s, k) - 1)]

RECURSIVE Flatten(_, _)
\* the matches of all lines, in the order of the text
Flatten(ss, k) == IF k > Len(ss) THEN <<>> ELSE ss[k] \o Flatten(ss, k + 1)

SetMin(S) == CHOOSE x \in S : \A y \in S : x <= y

SetMax(S) == CHOOSE x \in S : \A y \in S : x >= y

\* r'\[ERROR\] (.+\.java):\[(\d+),(\d+)\] (.+)' from a marker at i: the places
\* <<j, a, b>> where group 1, group 2 and group 3 can end
CompilationEnds(s, i) ==
    UNION { UNION { { <<j, a, b>> :
                        b \in {y \in (a + 2)..Len(s) :
                                  /\ IsDigits(Slice(s, a + 2, y))
                                  /\ HasAt(s, y + 1, <<"]", " ">>)
                                  /\ y + 3 <= Len(s)} } :
                    a \in {x \in (j + 3)..Len(s) :
                              /\ IsDigits(Slice(s, j + 3, x))
                              /\ HasAt(s, x + 1, <<",">>)} } :
            j \in {z \in (i + 13)..Len(s) :
                      /\ HasAt(s, z - 4, JavaSuffix)
                      /\ HasAt(s, z + 1, <<":", "[">>)} }

\* re.findall(compilation_pattern, ...) on one line: the groups
\* (file_path, line, column, error_msg); group 1 is greedy
CompilationMatch(s) ==
    LET starts == {i \in 1..Len(s) : HasAt(s, i, Marker) /\ CompilationEnds(s, i) # {}}
    IN IF starts = {} THEN <<>>
       ELSE LET i == SetMin(starts)
                j == SetMax({e[1] : e \in CompilationEnds(s, i)})
                e == CHOOSE x \in CompilationEnds(s, i) : x[1] = j
            IN << <<Slice(s, i + 8, j), Slice(s, j + 3, e[2]),
                    Slice(s, e[2] + 2, e[3]), Slice(s, e[3] + 3, Len(s))>> >>

\* r'\[ERROR\] (.+\.jar) was not found' from a marker at i: where group 1 can end
DependencyEnds(s, i) ==
    { j \in (i + 9)..Len(s) :
        /\ j - 3 >= i + 9
        /\ HasAt(s, j - 3, JarSuffix)
        /\ HasAt(s, j + 1, WasNotFound) }

\* re.findall(dependency_pattern, ...) on one line
DependencyMatch(s) ==
    LET starts == {i \in 1..Len(s) : HasAt(s, i, Marker) /\ DependencyEnds(s, i) # {}}
    IN IF starts = {} THEN <<>>
       ELSE LET i == SetMin(starts)
            IN << Slice(s, i + 8, SetMax(DependencyEnds(s, i))) >>

\* re.findall(r'\[ERROR\] (.+)', ...) on one line: the rest of the line after
\* the leftmost marker, when there is a rest
GeneralMatch(s) ==
    LET starts == {i \in 1..Len(s) : HasAt(s, i, Marker) /\ i + 8 <= Len(s)}
    IN IF starts = {} THEN <<>>
       ELSE << Slice(s, SetMin(starts) + 8, Len(s)) >>

compilation_matches(output_text) ==
    Flatten([k \in DOMAIN Lines(output_text) |-> CompilationMatch(Lines(output_text)[k])], 1)

dependency_matches(output_text) ==
    Flatten([k \in DOMAIN Lines(output_text) |-> DependencyMatch(Lines(output_text)[k])], 1)

general_matches(output_text) ==
    Flatten([k \in DOMAIN Lines(output_text) |-> GeneralMatch(Lines(output_text)[k])], 1)

\* errors.append({"type": "compilation", "file": ..., "line": int(line),
\*                "column": int(column), "message": error_msg.strip()})
CompilationError(match) ==
    [type |-> "compilation", file |-> match[1], line |-> int(match[2]),
     column |-> int(match[3]), message |-> strip(match[4])]

\* errors.append({"type": "dependency", "message": f"Missing dependency: {match}"})
DependencyError(match) == [type |-> "dependency", message |-> MissingDependency(match)]

\* errors.append({"type": "general", "message": match.strip()})
GeneralError(match) == [type |-> "general", message |-> strip(match)]

\* [error.get("message", "") for error in errors]
Messages(errs) == {errs[k].message : k \in DOMAIN errs}

\* a fallback pass that runs only when the two specific passes found nothing
OnlyWhenNothingFound(match, errs) ==
    \A k \in DOMAIN errs : errs[k].type \notin {"compilation", "dependency"}

\* if match not in [error.get("message", "") for error in errors]
NotYetReported(match, errs) == match \notin Messages(errs)

RECURSIVE AppendGeneral(_, _, _)
\* for match in general_matches: if match not in [...]: errors.append(...)
AppendGeneral(errs, matches, k) ==
    IF k > Len(matches) THEN errs
    ELSE AppendGeneral(IF NotYetReported(matches[k], errs)
                       THEN Append(errs, GeneralError(matches[k])) ELSE errs,
                       matches, k + 1)

\* errors = []; the pass of compilation_pattern
ExtractCompilation ==
    /\ ex_pc = "compilation"
    /\ ex_errors' = [k \in DOMAIN compilation_matches(ex_output) |->
                        CompilationError(compilation_matches(ex_output)[k])]
    /\ ex_pc' = "dependency"
    /\ UNCHANGED <<ex_output, files_to_fix, file_contents>>
    /\ UNCHANGED <<ctlVars, obsVars, applyVars, serviceVars>>

\* the pass of dependency_pattern
ExtractDependency ==
    /\ ex_pc = "dependency"
    /\ ex_errors' = ex_errors \o [k \in DOMAIN dependency_matches(ex_output) |->
                                    DependencyError(dependency_matches(ex_output)[k])]
    /\ ex_pc' = "general"
    /\ UNCHANGED <<ex_output, files_to_fix, file_contents>>
    /\ UNCHANGED <<ctlVars, obsVars, applyVars, serviceVars>>

\* the pass of general_error_pattern; return errors
ExtractGeneral ==
    /\ ex_pc = "general"
    /\ ex_errors' = AppendGeneral(ex_errors, general_matches(ex_output), 1)
    /\ ex_pc' = "returned"
    /\ UNCHANGED <<ex_output, files_to_fix, file_contents>>
    /\ UNCHANGED <<ctlVars, obsVars, applyVars, serviceVars>>

(* Build outputs extract_build_errors is run on *)

\* most lines of a build output
MaxLines == 2

\* "[ERROR] F.java:[10,5] m": a compiler error in a Java source
LineCompilation ==
    Marker \o <<"F">> \o JavaSuffix \o <<":", "[", "1", "0", ",", "5", "]", " ", "m">>

\* "[ERROR] F.kt:[1,2] k": a compiler error in a source that is not Java
LineCompilationKotlin ==
    Marker \o <<"F", ".", "k", "t", ":", "[", "1", ",", "2", "]", " ", "k">>

\* "[ERROR] a.jar was not found"
LineDependency == Marker \o <<"a">> \o JarSuffix \o WasNotFound

\* the lines of a build output: the three above and
\*   "[ERROR] A.java:[1,2] B.java:[3,4] g"  two locations on one line
\*   "[ERROR] lib was not found"            an artifact that is not a jar
\*   "[ERROR] m"                            the message of LineCompilation alone
\*   "[ERROR] x" and "[ERROR] x "           the same text without and with a trailing blank
\*   "[ERROR] "                             the marker and nothing else
\*   "[INFO] ok"                            a line without the marker
\*   "[WARN] [ERROR] x"                     the marker inside a line
\*   ""                                     an empty line
BuildLines ==
    { LineCompilation, LineCompilationKotlin, LineDependency,
      Marker \o <<"A">> \o JavaSuffix \o <<":", "[", "1", ",", "2", "]", " ", "B">>
             \o JavaSuffix \o <<":", "[", "3", ",", "4", "]", " ", "g">>,
      Marker \o <<"l", "i", "b">> \o WasNotFound,
      Marker \o <<"m">>,
      Marker \o <<"x">>,
      Marker \o <<"x", " ">>,
      Marker,
      <<"[", "I", "N", "F", "O", "]", " ", "o", "k">>,
      <<"[", "W", "A", "R", "N", "]", " ">> \o Marker \o <<"x">>,
      <<>> }

RECURSIVE JoinLines(_, _)
\* "\n".join(lines)
JoinLines(ls, k) ==
    IF k > Len(ls) THEN <<>>
    ELSE IF k = Len(ls) THEN ls[k]
    ELSE ls[k] \o <<Newline>> \o JoinLines(ls, k + 1)

\* stdout + "\n" + stderr of a build: up to MaxLines lines
BuildOutputs == {JoinLines(ls, 1) : ls \in SeqsUpTo(BuildLines, MaxLines)}

InitExtract ==
    /\ CtlIdle
    /\ ApplyIdle
    /\ ServiceIdle
    /\ ex_output \in BuildOutputs
    /\ ex_pc = "compilation"
    /\ ex_errors = <<>>
    /\ files_to_fix = {}
    /\ file_contents = <<>>

NextExtract ==
    \/ ExtractCompilation
    \/ ExtractDependency
    \/ ExtractGeneral

SpecExtract == InitExtract /\ [][NextExtract]_vars

----------------------------------------------------------------------------
(* fix_build_errors: the files whose content goes into the oracle request *)

\* for error in errors: if error.get("file"): files_to_fix.add(error["file"])
FilesToFix(errs) ==
    {errs[k].file : k \in {j \in DOMAIN errs : /\ "file" \in DOMAIN errs[j]
                                               /\ errs[j].file # <<>>}}

\* full_path of get_file_content: file_path as it is when absolute, else
\* os.path.join(code_dir, file_path)
RequestPath(file_path, code_dir) ==
    IF isabs(file_path) THEN file_path ELSE join(code_dir, file_path)

\* get_file_content: [read, content]; read = FALSE is the None returned when
\* open raises (missing file, directory)
get_file_content(f, file_path, code_dir) ==
    LET q == Resolve(RequestPath(file_path, code_dir)) IN
    IF q \in DOMAIN f /\ f[q].kind = "file"
    THEN [read |-> TRUE, content |-> f[q].content]
    ELSE [read |-> FALSE, content |-> <<>>]

\* if not errors: return []; otherwise the set files_to_fix is built
CollectFiles ==
    /\ ex_pc = "returned"
    /\ IF ex_errors = <<>>
       THEN /\ ex_pc' = "no_request"
            /\ files_to_fix' = {}
       ELSE /\ ex_pc' = "reading"
            /\ files_to_fix' = FilesToFix(ex_errors)
    /\ file_contents' = <<>>
    /\ UNCHANGED <<ex_output, ex_errors>>
    /\ UNCHANGED <<ctlVars, obsVars, applyVars, serviceVars>>

\* for file_path in files_to_fix: content = get_file_content(...);
\* if content: file_contents[file_path] = content
ReadFile ==
    /\ ex_pc = "reading"
    /\ \E file_path \in files_to_fix :
          LET r == get_file_content(fs, file_path, Root) IN
          /\ files_to_fix' = files_to_fix \ {file_path}
          /\ file_contents' =
                IF r.read /\ r.content # <<>>
                THEN [p \in DOMAIN file_contents \cup {file_path} |->
                         IF p = file_path THEN r.content ELSE file_contents[p]]
                ELSE file_contents
    /\ UNCHANGED <<ex_output, ex_pc, ex_errors>>
    /\ UNCHANGED <<ctlVars, obsVars, applyVars, serviceVars>>

\* the prompt is built from errors and file_contents and sent to the oracle
SendRequest ==
    /\ ex_pc = "reading"
    /\ files_to_fix = {}
    /\ ex_pc' = "requested"
    /\ UNCHANGED <<ex_output, ex_errors, files_to_fix, file_contents>>
    /\ UNCHANGED <<ctlVars, obsVars, applyVars, serviceVars>>

\* the build outputs: lines "[ERROR] <file>:[1,2] m" for sources that are
\* relative and absolute in the workspace, missing, empty, absolute outside the
\* workspace and relative leading out of it, and the line of a dependency
RequestOutputs ==
    LET RequestFiles ==
            { <<"A">> \o JavaSuffix,
              Root \o <<"/", "A">> \o JavaSuffix,
              <<"M">> \o JavaSuffix,
              <<"E">> \o JavaSuffix,
              <<"/", "e", "/", "S">> \o JavaSuffix,
              <<".", ".", "/", "r", "2", "/", "S">> \o JavaSuffix }
        LineAt(file) == Marker \o file \o <<":", "[", "1", ",", "2", "]", " ", "m">>
    IN {JoinLines(ls, 1) :
           ls \in SeqsUpTo({LineAt(file) : file \in RequestFiles} \cup {LineDependency},
                           MaxLines)}

InitRequest ==
    /\ CtlIdle
    /\ ServiceIdle
    /\ applier = "none"
    /\ apc = "idle"
    \* a workspace /r with sources, one of them empty and one the build does
    \* not name; beside it the sibling directory /r2 and the directory /e
    /\ fs = [p \in { <<"/">>, Root, Root \o <<"/", "A">> \o JavaSuffix,
                     Root \o <<"/", "E">> \o JavaSuffix, Root \o <<"/", "U">> \o JavaSuffix,
                     <<"/", "r", "2">>, <<"/", "r", "2", "/", "S">> \o JavaSuffix,
                     <<"/", "e">>, <<"/", "e", "/", "S">> \o JavaSuffix } |->
                IF p \in { <<"/">>, Root, <<"/", "r", "2">>, <<"/", "e">> } THEN Dir
                ELSE IF p = Root \o <<"/", "E">> \o JavaSuffix THEN File(<<>>)
                ELSE File(<<"t", "e", "x", "t">> \o p)]
    /\ fs0 = fs
    /\ fs1 = fs
    /\ batch = <<>>
    /\ idx = 0
    /\ pass = 0
    /\ target = <<>>
    /\ pre = fs
    /\ executed = {}
    /\ attempted = {}
    /\ skipped = {}
    /\ applyRet = "none"
    /\ firstRet = "none"
    /\ ex_output \in RequestOutputs
    /\ ex_pc = "compilation"
    /\ ex_errors = <<>>
    /\ files_to_fix = {}
    /\ file_contents = <<>>

NextRequest ==
    \/ ExtractCompilation
    \/ ExtractDependency
    \/ ExtractGeneral
    \/ CollectFiles
    \/ ReadFile
    \/ SendRequest

SpecRequest == InitRequest /\ [][NextRequest]_vars

----------------------------------------------------------------------------
(* generate_code: the retry loop around the model's answer *)

\* max_retries = 3
MaxRetries == 3

RECURSIVE lstrip(_, _)
\* str.lstrip(chars): leading characters that are in chars are removed
lstrip(s, chars) == IF s # <<>> /\ s[1] \in chars THEN lstrip(Tail(s), chars) ELSE s

RECURSIVE rstrip(_, _)
\* str.rstrip(chars)
rstrip(s, chars) ==
    IF s # <<>> /\ s[Len(s)] \in chars THEN rstrip(SubSeq(s, 1, Len(s) - 1), chars) ELSE s

\* raw_output = response.content.strip(); the markdown fence is taken off with
\* lstrip("```json") or lstrip("```"), rstrip("```") and strip()
\* (the backquote, which a TLA+ string cannot hold, is written "^")
Clean(content) ==
    LET raw == strip(content) IN
    IF startswith(raw, <<"^", "^", "^", "j", "s", "o", "n">>)
    THEN strip(rstrip(lstrip(raw, {"^", "j", "s", "o", "n"}), {"^"}))
    ELSE IF startswith(raw, <<"^", "^", "^">>)
    THEN strip(rstrip(lstrip(raw, {"^"}), {"^"}))
    ELSE raw

\* json.loads on the texts the answers can be cleaned to: {"files":["f"]},
\* {"files":[]}, {}, null; any other text raises JSONDecodeError (ok = FALSE)
json_loads(text) ==
    IF text = <<"{", "\"", "f", "i", "l", "e", "s", "\"", ":", "[", "\"", "f", "\"", "]", "}">>
    THEN [ok |-> TRUE, type |-> "dict", has_files |-> TRUE, files |-> <<"f">>]
    ELSE IF text = <<"{", "\"", "f", "i", "l", "e", "s", "\"", ":", "[", "]", "}">>
    THEN [ok |-> TRUE, type |-> "dict", has_files |-> TRUE, files |-> <<>>]
    ELSE IF text = <<"{", "}">>
    THEN [ok |-> TRUE, type |-> "dict", has_files |-> FALSE, files |-> <<>>]
    ELSE IF text = <<"n", "u", "l", "l">>
    THEN [ok |-> TRUE, type |-> "NoneType", has_files |-> FALSE, files |-> <<>>]
    ELSE [ok |-> FALSE, type |-> "none", has_files |-> FALSE, files |-> <<>>]

\* a loop that never takes an attempt for the last one
NeverLastRetry(r) == FALSE

\* if attempt == max_retries - 1: raise e
LastRetry(r) == r = MaxRetries - 1

\* one iteration of `for attempt in range(max_retries)`: the call of the model,
\* the cleaning, json.loads and the two except clauses; `return []` after the
\* loop.  `"files" not in parsed` raises ValueError on a dict and TypeError on
\* None; both are re-raised by `except Exception`
generate_code ==
    /\ gpc = "loop"
    /\ IF retry < MaxRetries
       THEN LET cleaned == Clean(responses[retry + 1])
                parsed == json_loads(cleaned)
            IN /\ llmCalls' = llmCalls + 1
               /\ raw_output' = cleaned
               /\ IF ~parsed.ok
                  THEN IF LastRetry(retry)
                       THEN /\ gen_result' = [kind |-> "raised", value |-> <<"JSONDecodeError">>]
                            /\ gpc' = "raised"
                            /\ retry' = retry
                       ELSE /\ gen_result' = gen_result
                            /\ gpc' = "loop"
                            /\ retry' = retry + 1
                  ELSE /\ retry' = retry
                       /\ IF parsed.type = "dict" /\ parsed.has_files
                          THEN /\ gen_result' = [kind |-> "returned", value |-> parsed.files]
                               /\ gpc' = "returned"
                          ELSE /\ gen_result' =
                                     [kind |-> "raised",
                                      value |-> IF parsed.type = "dict" THEN <<"ValueError">>
                                                ELSE <<"TypeError">>]
                               /\ gpc' = "raised"
       ELSE /\ gen_result' = [kind |-> "fell_out", value |-> <<>>]
            /\ gpc' = "returned"
            /\ UNCHANGED <<llmCalls, raw_output, retry>>
    /\ UNCHANGED <<request, response, cloned, committed, responses>>
    /\ UNCHANGED <<ctlVars, obsVars, applyVars, extractVars>>

\* the model's answers to the successive calls are drawn from: a changeset
\* bare, in a ```json fence on lines of its own and in a ``` fence; an empty
\* changeset; an object without "files"; null; null directly after ```json;
\* text that is not JSON; an object between blanks
InitGenerate ==
    /\ CtlIdle
    /\ ApplyIdle
    /\ ExtractIdle
    /\ request = "none"
    /\ response = [status |-> 0, body |-> "none"]
    /\ cloned = FALSE
    /\ committed = FALSE
    /\ responses \in [1..MaxRetries ->
          { <<"{", "\"", "f", "i", "l", "e", "s", "\"", ":", "[", "\"", "f", "\"", "]", "}">>,
            <<"^", "^", "^", "j", "s", "o", "n", "\n", "{", "\"", "f", "i", "l", "e", "s", "\"", ":", "[", "\"", "f", "\"", "]", "}", "\n", "^", "^", "^">>,
            <<"^", "^", "^", "{", "\"", "f", "i", "l", "e", "s", "\"", ":", "[", "\"", "f", "\"", "]", "}", "^", "^", "^">>,
            <<"{", "\"", "f", "i", "l", "e", "s", "\"", ":", "[", "]", "}">>,
            <<"{", "}">>,
            <<"n", "u", "l", "l">>,
            <<"^", "^", "^", "j", "s", "o", "n", "n", "u", "l", "l", "^", "^", "^">>,
            <<"x">>,
            <<" ", "{", "}", "\n">> }]
    /\ gpc = "loop"
    /\ retry = 0
    /\ raw_output = <<>>
    /\ gen_result = [kind |-> "none", value |-> <<>>]
    /\ llmCalls = 0

NextGenerate == generate_code

SpecGenerate == InitGenerate /\ [][NextGenerate]_vars

----------------------------------------------------------------------------
(* Properties of the control loops *)

\* fix_and_build has returned to its caller and nothing ran since
Returned == pc = "fb_done" /\ fb_result.set

\* C1 - Bound respect: for every inner bound N >= 1 a run of fix_and_build
\* starts the compile phase at most N times and the package phase at most N
\* times, whatever happens in between; the run that returns exhausted has
\* finished exactly N attempts.
C1_BoundRespect ==
    (max_attempts >= 1) =>
        /\ compileStarts <= max_attempts
        /\ packageStarts <= max_attempts
        /\ packageStarts <= compileStarts
        /\ (Returned /\ lastRunEnd = "exhausted") => attempt = max_attempts

\* an exhausted run with the service's bound that compiled and packaged in each
\* of its three attempts and called the oracle in between
C1_Witness ==
    /\ Returned
    /\ lastRunEnd = "exhausted"
    /\ max_attempts = ServiceMaxAttempts
    /\ compileStarts = max_attempts
    /\ packageStarts = max_attempts
    /\ oracleCalls >= 2

\* C2 - Phases are sequential: a package phase is started only after the
\* compile phase of the same attempt of the same run has succeeded; after a
\* failed or timed-out compile the loop is never at the package phase.
C2_PackageOnlyAfterCompile ==
    /\ lastPackage.set =>
          /\ lastPackage.compile.set
          /\ lastPackage.compile.ok
          /\ lastPackage.compile.run = lastPackage.run
          /\ lastPackage.compile.attempt = lastPackage.attempt
    /\ (pc = "fb_package") =>
          /\ lastCompile.set /\ lastCompile.ok
          /\ lastCompile.attempt = attempt /\ lastCompile.run = innerRuns
    /\ (lastCompile.set /\ ~lastCompile.ok /\ lastPackage.set) =>
          lastPackage.attempt < lastCompile.attempt

\* a package phase in a later attempt of a run whose earlier compile phases
\* all failed, followed by a compile phase that timed out
C2_Witness ==
    /\ lastPackage.set
    /\ packageStarts = 1
    /\ lastPackage.attempt = 1
    /\ lastCompile.set /\ ~lastCompile.ok
    /\ lastCompile.attempt = 2
    /\ output.kind = "timeout"

\* C3 - fix_and_build returns success exactly when one attempt compiled and
\* then packaged successfully with no workspace write since that compile
\* started; it returns failure only with the attempt counter at the bound and
\* no such attempt, or with the build tool unavailable.
C3_SuccessIffCleanAttempt ==
    Returned =>
        /\ fb_result.success =>
              /\ lastCompile.set /\ lastCompile.ok
              /\ lastPackage.set /\ lastPackage.ok
              /\ lastPackage.compile = lastCompile
              /\ lastPackage.attempt = lastCompile.attempt
              /\ wsVersion = lastCompile.ws
              /\ wsVersion = lastPackage.ws
        /\ (lastPackage.set /\ lastPackage.ok) => fb_result.success
        /\ ~fb_result.success =>
              \/ lastRunEnd = "unavailable" /\ compileStarts = 0
              \/ /\ lastRunEnd = "exhausted"
                 /\ attempt = max_attempts
                 /\ ~(lastPackage.set /\ lastPackage.ok)

\* a success in the third attempt, after a patched compile failure and a
\* patched package failure
C3_Witness ==
    /\ Returned
    /\ fb_result.success
    /\ attempt = 2
    /\ packageStarts = 2
    /\ oracleCalls = 2
    /\ wsVersion >= 2

\* C4 - The log of an exhausted run holds the output of the phase that failed
\* in the last attempt.
C4_ExhaustedLogHasFailedPhase ==
    (Returned /\ lastRunEnd = "exhausted") =>
        /\ failing.attempt = max_attempts - 1
        /\ \E i \in DOMAIN fb_result.log : fb_result.log[i] = failing

\* C10 - Outer loop bound: at most max_regeneration_attempts changesets are
\* requested; one is requested again only after the previous inner run ended
\* exhausted; nothing is generated or built after a success, whose
\* regeneration_attempts is the 1-based index of the successful attempt; every
\* inner run starts with the counter reset and the full inner bound.
C10_OuterLoop ==
    (mode = "service") =>
        /\ genCalls <= max_regeneration_attempts
        /\ innerRuns <= genCalls
        /\ genAfter \subseteq {"exhausted"}
        /\ (regen_result.set /\ regen_result.success) =>
              /\ regen_result.regeneration_attempts = genCalls
              /\ innerRuns = genCalls
              /\ lastRunEnd = "success"
              /\ pc = "done"
        /\ (pc \in {"fb_loop", "fb_package", "fb_success", "fb_diagnose", "fb_propose", "fb_apply"}) =>
              /\ max_attempts = ServiceMaxAttempts
              /\ attempt <= compileStarts
              /\ compileStarts <= attempt + 1


\* C11 - After outer exhaustion the failure result carries success = false,
\* the log of the most recent inner failure, and both attempt counts: the
\* outer attempts and the inner attempts.
C11_FailureResult ==
    (pc = "done" /\ regen_result.set /\ ~regen_result.success) =>
        /\ regen_result.build_output = fb_result.log
        /\ regen_result.regeneration_attempts = genCalls
        /\ "inner_attempts" \in DOMAIN regen_result

\* C12 - Build tool unavailable is fatal and not retried: after a failed
\* availability check nothing is compiled or packaged, the oracle is not
\* called, the workspace is not written, and the outer loop neither requests
\* another changeset nor starts another repair run.
C12_UnavailableIsFatal ==
    /\ [](lastRunEnd = "unavailable" =>
             (compileStarts = 0 /\ packageStarts = 0 /\ oracleCalls = 0))
    /\ [][lastRunEnd = "unavailable" =>
             (genCalls' = genCalls /\ innerRuns' = innerRuns /\ wsVersion' = wsVersion)]_vars

\* C13 - Blind retry: when the extraction of a failed build gives no
\* diagnostic, the oracle is not invoked and the workspace is not modified;
\* the controller goes straight to the next build attempt, and the failed
\* build has consumed exactly one attempt.
C13_BlindRetry ==
    [][(pc = "fb_diagnose" /\ extract_build_errors(failing) = <<>>) =>
          /\ pc' = "fb_loop"
          /\ attempt' = attempt + 1
          /\ compileStarts' = attempt'
          /\ oracleCalls' = oracleCalls
          /\ wsVersion' = wsVersion
          /\ bakFiles' = bakFiles
          /\ fixes' = fixes]_vars

\* a blind retry has just happened in a run that never called the oracle
C13_Witness ==
    /\ pc = "fb_loop"
    /\ lastRepair = "blind"
    /\ attempt >= 1
    /\ attempt < max_attempts
    /\ oracleCalls = 0
    /\ failing.kind \in {"silent", "timeout"}

\* C17 - Untrusted oracle: an answer that is not a non-empty sequence of
\* well-formed instructions is never handed to the applier, and after an
\* unusable answer the oracle is invoked again within the same attempt before
\* the attempt counts as failed.
C17_UntrustedOracle ==
    /\ (pc = "fb_apply" => \A i \in DOMAIN fixes : fixes[i].valid)
    /\ (pc = "fb_loop" /\ attempt = 1 /\ lastRepair = "no_fixes") => oracleCalls >= 2

\* C19 - No stale diagnostics: what the oracle receives was extracted from
\* the output of the failed phase of the current attempt only: never from an
\* earlier attempt and, on a package failure, never from the compile phase.
C19_NoStaleDiagnostics ==
    (pc \in {"fb_propose", "fb_apply"}) =>
        /\ errors # <<>>
        /\ \A i \in DOMAIN errors :
              /\ errors[i].src = failing
              /\ errors[i].src.run = innerRuns
              /\ errors[i].src.attempt = attempt
              /\ ~BuildSuccess(errors[i].src)
              /\ errors[i].src.phase = (IF lastCompile.ok THEN "package" ELSE "compile")
        /\ (pc = "fb_apply" => \A i \in DOMAIN fixes : fixes[i].for = errors)

\* the oracle is about to be called on a package failure of a later attempt,
\* after it was called in an earlier attempt
C19_Witness ==
    /\ pc = "fb_propose"
    /\ attempt >= 1
    /\ oracleCalls >= 1
    /\ errors # <<>>
    /\ errors[1].src.phase = "package"

C21_TimeoutIsBuildFailure ==
    /\ []((pc = "fb_diagnose" /\ failing.kind = "timeout") =>
             (compileStarts = attempt + 1 /\ lastRunEnd = "running"))
    /\ [][(compileStarts' = compileStarts + 1 /\ output'.kind = "timeout") =>
             (pc' = "fb_diagnose" /\ failing' = output' /\ attempt' = attempt)]_vars
    /\ [][(packageStarts' = packageStarts + 1 /\ package_output'.kind = "timeout") =>
             (pc' = "fb_diagnose" /\ failing' = package_output' /\ attempt' = attempt)]_vars
    /\ [][(pc = "fb_diagnose" /\ failing.kind = "timeout") =>
             (pc' = "fb_loop" /\ attempt' = attempt + 1 /\ lastRunEnd' = "running")]_vars

\* the package phase of a later attempt timed out, the attempt was counted
\* and the loop is about to build again
C21_Witness ==
    /\ pc = "fb_loop"
    /\ failing.kind = "timeout"
    /\ failing.phase = "package"
    /\ failing.attempt = attempt - 1
    /\ attempt >= 2
    /\ attempt < max_attempts
    /\ lastRunEnd = "running"

\* C22 - End-to-end scenario: a first build that fails to compile with a
\* diagnostic, an oracle patch that applies, and a second build that compiles
\* and packages end with the session reporting success = true and
\* innerAttempts = 2.
C22_EndToEnd ==
    ( /\ mode = "service"
      /\ pc = "done"
      /\ genCalls = 1
      /\ compileStarts = 2
      /\ packageStarts = 1
      /\ oracleCalls = 1
      /\ lastRepair = "applied"
      /\ lastPackage.ok ) =>
        /\ regen_result.set
        /\ regen_result.success
        /\ "inner_attempts" \in DOMAIN regen_result
        /\ regen_result.inner_attempts = 2

\* C23 - No exception crosses a component boundary: whatever the generator
\* answers and whatever the file operations do, nothing propagates as an
\* exception out of the regeneration loop.
C23_NothingRaised ==
    (mode = "service" /\ max_regeneration_attempts >= 1) => pc # "raised"

\* C28 - Strict step ordering: the workspace is written only by the apply
\* steps (never by a build step, and never between the compile and the package
\* phase of one attempt), and the oracle is called only after a build phase of
\* the current attempt has failed.
C28_StepOrder ==
    /\ []((pc = "fb_package") => wsVersion = lastCompile.ws)
    /\ [](lastPackage.set => lastPackage.ws = lastPackage.compile.ws)
    /\ []((pc = "fb_propose") =>
             /\ ~BuildSuccess(failing)
             /\ failing.attempt = attempt
             /\ failing.run = innerRuns
             /\ compileStarts = attempt + 1)
    /\ [][wsVersion' # wsVersion => pc \in {"rg_loop", "fb_apply", "rg_cleanup"}]_vars
    /\ [][(compileStarts' = compileStarts + 1 \/ packageStarts' = packageStarts + 1) =>
             (wsVersion' = wsVersion /\ oracleCalls' = oracleCalls)]_vars
    /\ [][oracleCalls' = oracleCalls + 1 =>
             (pc = "fb_propose" /\ pc' \in {"fb_apply", "fb_loop"} /\ wsVersion' = wsVersion)]_vars

\* the package phase of a later attempt is about to start on a workspace that
\* was generated and then patched, and compiled since
C28_Witness ==
    /\ pc = "fb_package"
    /\ mode = "service"
    /\ attempt >= 1
    /\ oracleCalls >= 1
    /\ lastRepair = "applied"
    /\ wsVersion >= 2
    /\ wsVersion = lastCompile.ws

\* what is left of one outer iteration at each position
LocalMeasure ==
    CASE pc = "rg_loop" -> (max_attempts + 2) * 7 + 19
      [] pc = "fb_call" -> (max_attempts + 2) * 7 + 18
      [] pc = "fb_loop" -> (max_attempts - attempt) * 7 + 9
      [] pc = "fb_package" -> (max_attempts - attempt) * 7 + 8
      [] pc = "fb_diagnose" -> (max_attempts - attempt) * 7 + 7
      [] pc = "fb_propose" -> (max_attempts - attempt) * 7 + 6
      [] pc = "fb_apply" -> (max_attempts - attempt) * 7 + 5
      [] pc = "fb_success" -> (max_attempts - attempt) * 7 + 4
      [] pc = "fb_done" -> 2
      [] pc = "rg_cleanup" -> 1
      [] OTHER -> 0

\* a number that every step of a session makes smaller
Measure ==
    IF pc = "responded" THEN 0
    ELSE IF pc \in {"done", "raised"} THEN 1
    ELSE IF pc = "mp_request"
    THEN (max_regeneration_attempts + 1) * ((max_attempts + 2) * 7 + 20) + 4
    ELSE IF pc = "mp_clone"
    THEN (max_regeneration_attempts + 1) * ((max_attempts + 2) * 7 + 20) + 3
    ELSE (max_regeneration_attempts - regeneration_attempt) * ((max_attempts + 2) * 7 + 20)
         + LocalMeasure + 2

\* C29 - Termination: every step of a session brings it closer to a terminal
\* result, so no state lets the loops continue forever; a session starts at
\* most outer bound repair runs with at most inner bound builds each.
C29_Termination ==
    /\ [](Measure >= 0)
    /\ [][Measure' < Measure]_vars
    /\ [](innerRuns <= max_regeneration_attempts \/ (mode = "direct" /\ innerRuns <= 1))
    /\ [](compileStarts <= max_attempts \/ max_attempts = 0)

\* the final failure of a session that used every build the two bounds allow
C29_Witness ==
    /\ pc = "done"
    /\ regen_result.set
    /\ ~regen_result.success
    /\ max_regeneration_attempts = MaxRegenerationAttempts
    /\ innerRuns = max_regeneration_attempts
    /\ compileStarts = max_attempts
    /\ Measure = 1

\* C32 - Regeneration starts from scratch: when a repair run follows the
\* generation of a second or later changeset, the workspace holds no .bak file
\* left by the patches of an earlier repair run.
C32_FreshWorkspace ==
    (mode = "service" /\ pc = "fb_call" /\ genCalls >= 2) => ~bakFiles

\* C34 - Every patch is verified: when fix_and_build returns its failure after
\* the last attempt, the workspace is the one the last compile phase ran on,
\* and the oracle was called fewer times than builds were started.
C34_EveryPatchVerified ==
    (pc = "fb_done" /\ lastRunEnd = "exhausted") =>
        /\ wsVersion = lastCompile.ws
        /\ oracleCalls < compileStarts

\* C35 - on_success: a run that returns success with a callback has invoked
\* it exactly once; a run that returns failure, or finds the build tool
\* unavailable, has not invoked it; it is invoked only after the package
\* phase of the current attempt succeeded and before the result is set.
C35_OnSuccessOnce ==
    /\ []((pc = "fb_done" /\ fb_result.success /\ has_on_success) => onSuccessCalls = 1)
    /\ []((pc = "fb_done" /\ ~fb_result.success) => onSuccessCalls = 0)
    /\ [](~has_on_success => onSuccessCalls = 0)
    /\ [][onSuccessCalls' # onSuccessCalls =>
             /\ onSuccessCalls' = onSuccessCalls + 1
             /\ pc = "fb_success"
             /\ lastPackage.ok
             /\ lastPackage.attempt = attempt
             /\ lastPackage.ws = wsVersion
             /\ ~fb_result.set]_vars

\* a run with a callback has returned success after a repaired attempt
C35_Witness ==
    /\ pc = "fb_done"
    /\ fb_result.set
    /\ fb_result.success
    /\ has_on_success
    /\ onSuccessCalls = 1
    /\ attempt >= 1
    /\ lastRepair = "applied"

\* C37 - Degenerate bounds: with an inner bound of 0 fix_and_build, and with
\* an outer bound of 0 regenerate_until_success, raises nothing, starts no
\* build and calls no generator, and gives a failure result.
C37_DegenerateBounds ==
    (\/ mode = "direct" /\ max_attempts = 0
     \/ mode = "service" /\ max_regeneration_attempts = 0)
    => /\ pc # "raised"
       /\ compileStarts = 0
       /\ genCalls = 0
       /\ fb_result.set => ~fb_result.success
       /\ regen_result.set => ~regen_result.success

\* the request gives both fields and a repository path with exactly one '/'
ValidRequest ==
    /\ request.requestMessage \notin {<<"None">>, <<>>}
    /\ request.githubRepo \notin {<<"None">>, <<>>}
    /\ Cardinality({i \in DOMAIN request.githubRepo : request.githubRepo[i] = "/"}) = 1

\* C38 - Request validation: a request without requestMessage or githubRepo,
\* or whose githubRepo does not hold exactly one '/', is answered with status
\* 400 and the validation error, and nothing is cloned, generated or built.
C38_InvalidRequestIs400 ==
    (mode = "service" /\ ~ValidRequest) =>
        /\ ~cloned
        /\ genCalls = 0
        /\ compileStarts = 0
        /\ (pc = "responded") =>
              /\ response.status = 400
              /\ response.body \in {"missing_fields", "invalid_format"}

----------------------------------------------------------------------------
(* Properties of the appliers *)

\* every path outside the workspace root is as it was before the batch
OutsideUntouched ==
    \A p \in DOMAIN fs \cup DOMAIN fs0 :
        ~UnderRoot(p) => (p \in DOMAIN fs /\ p \in DOMAIN fs0 /\ fs[p] = fs0[p])

\* C5 - Containment of oracle patches: apply_fixes never creates, overwrites,
\* backs up or deletes a path outside the workspace root, and an instruction
\* it refuses does not keep the rest of the batch from being applied.
C5_FixesContained ==
    (applier = "fixes") =>
        /\ OutsideUntouched
        /\ (apc = "returned" /\ applyRet = "True") =>
              (executed = 1..Len(batch) /\ skipped \subseteq executed)

\* C6 - Containment of generated changesets: apply_structured_changes never
\* creates a directory, writes a file or deletes a path outside the workspace
\* root.
C6_StructuredContained ==
    (applier \in {"structured", "structured_main"}) => OutsideUntouched

\* the instruction whose loop body was the last to run to its end, 0 if none
LastFinished ==
    IF target = <<>> THEN 0
    ELSE IF apc = "resolve" THEN idx - 1
    ELSE IF apc = "returned" /\ idx \in executed THEN idx
    ELSE 0

\* the instruction i overwrites or removes a file that existed when it started
OverwritesExisting(i) ==
    /\ i \in 1..Len(batch)
    /\ i \notin skipped
    /\ batch[i].action \in {"update", "delete"}
    /\ target \in DOMAIN pre
    /\ pre[target].kind = "file"

\* target + ".bak" is a file with the content target had when the instruction started
BackupHoldsOld ==
    /\ bak(target) \in DOMAIN fs
    /\ fs[bak(target)] = File(pre[target].content)

\* C7 - Backup-before-overwrite: when an update or delete instruction targets
\* an existing file p, p + ".bak" holds p's previous content before p is
\* overwritten or removed and still when the instruction has finished.
C7_BackupBeforeOverwrite ==
    /\ (apc = "write" /\ OverwritesExisting(idx)) => BackupHoldsOld
    /\ OverwritesExisting(LastFinished) => BackupHoldsOld

\* the batch has been applied twice
AppliedTwice == apc = "returned" /\ pass = 2

\* C8 - Idempotence, backup files included: the second application of a
\* changeset leaves every path as the first application left it.
C8_IdempotentWithBackups == AppliedTwice => fs = fs1

\* C9 - Best-effort batches: when an instruction of a batch fails, the later
\* instructions are still executed and the caller gets the failure as a
\* value: whenever an applier is left, every instruction of the batch has been
\* started and no exception has been raised.
C9_BestEffort ==
    (apc = "returned") =>
        /\ attempted = 1..Len(batch)
        /\ applyRet # "raised"

\* the instruction being processed lacks "action" or has an unrecognised one
MalformedInstr(i) == batch[i].action \notin {"create", "update", "delete"}

\* C18 - Malformed instructions are rejected: an instruction with a missing
\* action, or an action other than create, update, delete, changes nothing in
\* the workspace: no file written, no backup taken, no directory created,
\* nothing deleted.
C18_MalformedRejected ==
    (idx \in attempted /\ MalformedInstr(idx)) => fs = pre

\* the instruction whose loop body has just been left, normally or by an
\* exception, 0 if none
JustProcessed ==
    IF apc = "resolve" /\ target # <<>> THEN idx - 1
    ELSE IF apc = "returned" /\ idx \in attempted THEN idx
    ELSE 0

\* the applier has not been left by an error
NoErrorReported == (apc = "returned") => applyRet \in {"True", "None"}

\* C24 - Delete semantics: after a delete instruction neither its target nor
\* anything below it exists, whether the target was a file, a directory or
\* absent, and no error is reported; for apply_fixes and for both
\* apply_structured_changes.
C24_DeleteSemantics ==
    (/\ JustProcessed > 0
     /\ JustProcessed \notin skipped
     /\ batch[JustProcessed].action = "delete")
    => /\ \A p \in DOMAIN fs : p # target /\ ~startswith(p, target \o <<"/">>)
       /\ NoErrorReported

\* the instructions of the batch that work on the path p
Targeting(p) ==
    {i \in 1..Len(batch) :
        /\ TargetOf(batch[i]) = p
        /\ batch[i].action \in {"create", "update", "delete"}
        /\ (applier = "fixes" => InsideProject(p, Root))}

\* the path p is as the instruction i leaves it
LeftBy(p, i) ==
    IF batch[i].action = "delete" THEN p \notin DOMAIN fs
    ELSE p \in DOMAIN fs /\ fs[p] = File(FixContent(batch[i]))

\* C25 - Ordered application, last write wins: when the applier is left, every
\* path that instructions of the batch work on is in the state its last such
\* instruction gives it: the content of a last create or update, absent after
\* a last delete.
C25_LastWriteWins ==
    (apc = "returned") =>
        \A i \in 1..Len(batch) :
            Targeting(TargetOf(batch[i])) # {} =>
                LeftBy(TargetOf(batch[i]), SetMax(Targeting(TargetOf(batch[i]))))

\* C30 - Create/update steps: after a create or update instruction the parent
\* directories of the target exist, the target holds exactly the content of
\* the instruction, target + ".bak" holds the previous content when the target
\* was a file before, and no error is reported.
C30_CreateUpdateSteps ==
    (/\ JustProcessed > 0
     /\ JustProcessed \notin skipped
     /\ batch[JustProcessed].action \in {"create", "update"}
     /\ batch[JustProcessed].content # NoContent
     /\ ~isdir(pre, target))
    => /\ isdir(fs, dirname(target))
       /\ target \in DOMAIN fs
       /\ fs[target] = File(batch[JustProcessed].content)
       /\ (target \in DOMAIN pre => BackupHoldsOld)
       /\ NoErrorReported

\* the copy of the current target to target + ".bak" has failed
BackupFailed ==
    /\ applier = "fixes"
    /\ idx \in attempted
    /\ idx \notin skipped
    /\ batch[idx].action \in {"update", "delete"}
    /\ NeedsBackup(pre, target, batch[idx])
    /\ ~copy2(pre, target, bak(target)).ok

\* C31 - Backup failure does not block the write: when shutil.copy2 of the
\* target to its .bak file fails, the instruction goes on to its write or
\* delete, and the applier is left only after every instruction of the batch
\* has been started.
C31_BackupFailureNotFatal ==
    BackupFailed =>
        /\ apc = "write" \/ idx \in executed
        /\ (apc = "returned") => attempted = 1..Len(batch)

\* the backup files under the workspace root
BackupFilesUnder(f) ==
    {p \in DOMAIN f : /\ f[p].kind = "file"
                      /\ startswith(p, Root \o <<"/">>)
                      /\ endswith(p, BakSuffix)}

----------------------------------------------------------------------------
(* Properties of extract_build_errors *)

\* the text of a line after the marker it begins with
AfterMarker(l) == Slice(l, Len(Marker) + 1, Len(l))

\* the lines of the output that begin with the error marker
MarkedLines == {k \in DOMAIN Lines(ex_output) : startswith(Lines(ex_output)[k], Marker)}

\* lines of the form "[ERROR] <file>:[<line>,<column>] <message>" with the
\* file, line and column they name
LocatedLines ==
    { [text |-> LineCompilation, file |-> <<"F", ".", "j", "a", "v", "a">>,
       line |-> 10, column |-> 5],
      [text |-> LineCompilationKotlin, file |-> <<"F", ".", "k", "t">>,
       line |-> 1, column |-> 2] }

\* C14 - Diagnostic completeness: a line "[ERROR] <file>:[<line>,<column>]
\* <message>" of the output yields exactly one compilation diagnostic with that
\* file, line and column, and does not also yield a general diagnostic.
C14_CompilationOnce ==
    (ex_pc = "returned") =>
        \A l \in LocatedLines :
            LET here == {k \in DOMAIN Lines(ex_output) : Lines(ex_output)[k] = l.text}
            IN (here # {}) =>
                  /\ Cardinality({k \in DOMAIN ex_errors :
                                     /\ ex_errors[k].type = "compilation"
                                     /\ ex_errors[k].file = l.file
                                     /\ ex_errors[k].line = l.line
                                     /\ ex_errors[k].column = l.column})
                        = Cardinality(here)
                  /\ \A k \in DOMAIN ex_errors :
                        ex_errors[k].type = "general" =>
                            ex_errors[k].message # strip(AfterMarker(l.text))

\* C15 - Dependency extraction: the output "[ERROR] <artifact> was not found"
\* yields exactly one diagnostic, of kind dependency, with the message
\* "Missing dependency: <artifact>", and no general diagnostic beside it.
C15_DependencyOnly ==
    (ex_pc = "returned" /\ ex_output = LineDependency) =>
        ex_errors = << [type |-> "dependency",
                        message |-> MissingDependency(<<"a", ".", "j", "a", "r">>)] >>

\* a diagnostic that stands for the marked line l: one with the text of the
\* line as its message, a compilation diagnostic whose file starts and whose
\* message ends that text, or the dependency diagnostic of its artifact
Represents(d, l) ==
    \/ d.message = strip(AfterMarker(l))
    \/ /\ d.type = "compilation"
       /\ startswith(AfterMarker(l), d.file)
       /\ Len(d.message) <= Len(AfterMarker(l))
       /\ strip(Slice(AfterMarker(l), Len(AfterMarker(l)) - Len(d.message) + 1,
                      Len(AfterMarker(l)))) = d.message
    \/ /\ d.type = "dependency"
       /\ MissingDependency(AfterMarker(l)) = d.message \o WasNotFound

\* C16 - No error-marked line is dropped: each line that begins with
\* "[ERROR] " is represented by at least one diagnostic, so the result is
\* empty only if no line is marked; a general diagnostic is left out only when
\* its message is the message of a compilation or dependency diagnostic.
C16_NoMarkedLineDropped ==
    (ex_pc = "returned") =>
        /\ \A k \in MarkedLines :
              \E e \in DOMAIN ex_errors : Represents(ex_errors[e], Lines(ex_output)[k])
        /\ (ex_errors = <<>> => MarkedLines = {})
        /\ \A k \in MarkedLines :
              \/ \E e \in DOMAIN ex_errors :
                    /\ ex_errors[e].type = "general"
                    /\ ex_errors[e].message = strip(AfterMarker(Lines(ex_output)[k]))
              \/ \E e \in DOMAIN ex_errors :
                    /\ ex_errors[e].type \in {"compilation", "dependency"}
                    /\ ex_errors[e].message = AfterMarker(Lines(ex_output)[k])

\* the marked lines that have text after the marker
MarkedLinesWithText == {k \in MarkedLines : AfterMarker(Lines(ex_output)[k]) # <<>>}

\* C16 (amended) - No error-marked line with text is dropped: each line that
\* begins with "[ERROR] " and has at least one more character is represented
\* by at least one diagnostic, so the result is empty only if no line has text
\* after the marker (a line that is the marker alone yields nothing); a general
\* diagnostic is left out only when its message is the message of a
\* compilation or dependency diagnostic.
C16_MarkedTextKept ==
    (ex_pc = "returned") =>
        /\ \A k \in MarkedLinesWithText :
              \E e \in DOMAIN ex_errors : Represents(ex_errors[e], Lines(ex_output)[k])
        /\ (ex_errors = <<>> => MarkedLinesWithText = {})
        /\ \A k \in MarkedLinesWithText :
              \/ \E e \in DOMAIN ex_errors :
                    /\ ex_errors[e].type = "general"
                    /\ ex_errors[e].message = strip(AfterMarker(Lines(ex_output)[k]))
              \/ \E e \in DOMAIN ex_errors :
                    /\ ex_errors[e].type \in {"compilation", "dependency"}
                    /\ ex_errors[e].message = AfterMarker(Lines(ex_output)[k])

\* extraction has returned for an output with a compilation line, and with a
\* marked line whose general diagnostic was left out because a compilation
\* diagnostic has its message
C16_Witness ==
    /\ ex_pc = "returned"
    /\ \E k \in MarkedLinesWithText :
          /\ \A e \in DOMAIN ex_errors :
                ex_errors[e].type = "general" =>
                    ex_errors[e].message # strip(AfterMarker(Lines(ex_output)[k]))
          /\ \E e \in DOMAIN ex_errors :
                /\ ex_errors[e].type = "compilation"
                /\ ex_errors[e].message = AfterMarker(Lines(ex_output)[k])


\* the artifacts of the lines "[ERROR] <artifact> was not found" of the outputs
Artifacts == { <<"a">> \o JarSuffix, <<"l", "i", "b">> }

\* the text l is a line of the output
IsLine(l) == \E k \in DOMAIN Lines(ex_output) : Lines(ex_output)[k] = l

\* C33 - Compilation grammar: a line "[ERROR] <file>:[<line>,<column>]
\* <message>" of the output yields a compilation diagnostic with that file, line
\* and column, whether the file is F.java or F.kt, and a line "[ERROR]
\* <artifact> was not found" yields the dependency diagnostic of the artifact,
\* whether it is a.jar or lib.
C33_GrammarAnyExtension ==
    (ex_pc = "returned") =>
        /\ \A l \in LocatedLines :
              IsLine(l.text) =>
                  \E k \in DOMAIN ex_errors :
                      /\ ex_errors[k].type = "compilation"
                      /\ ex_errors[k].file = l.file
                      /\ ex_errors[k].line = l.line
                      /\ ex_errors[k].column = l.column
        /\ \A a \in Artifacts :
              IsLine(Marker \o a \o WasNotFound) =>
                  \E k \in DOMAIN ex_errors :
                      /\ ex_errors[k].type = "dependency"
                      /\ ex_errors[k].message = MissingDependency(a)

----------------------------------------------------------------------------
(* Properties of generate_code *)

\* the answers before the k-th are not parseable JSON once cleaned
UnparseableBefore(k) == \A i \in 1..(k - 1) : ~json_loads(Clean(responses[i])).ok

\* the first answer that is parseable JSON, 0 if there is none
FirstParseable ==
    IF \A i \in 1..MaxRetries : ~json_loads(Clean(responses[i])).ok THEN 0
    ELSE CHOOSE k \in 1..MaxRetries :
             json_loads(Clean(responses[k])).ok /\ UnparseableBefore(k)

\* C36 - Generator retry: generate_code calls the model at most three times,
\* and again only after an answer that is not parseable JSON; it raises
\* JSONDecodeError after the third such answer; at the first parseable answer
\* it stops, returning the value of 'files' if the answer has that key and
\* raising if not; it never returns by falling out of the loop.
C36_GeneratorRetry ==
    /\ [](llmCalls <= MaxRetries)
    /\ [][llmCalls' # llmCalls =>
             /\ llmCalls' = llmCalls + 1
             /\ UnparseableBefore(llmCalls')]_vars
    /\ []((gpc \in {"returned", "raised"} /\ FirstParseable = 0) =>
             /\ llmCalls = MaxRetries
             /\ gen_result = [kind |-> "raised", value |-> <<"JSONDecodeError">>])
    /\ []((gpc \in {"returned", "raised"} /\ FirstParseable # 0) =>
             /\ llmCalls = FirstParseable
             /\ IF json_loads(Clean(responses[FirstParseable])).has_files
                THEN gen_result = [kind |-> "returned",
                                   value |-> json_loads(Clean(responses[FirstParseable])).files]
                ELSE gen_result.kind = "raised" /\ gen_result.value # <<"JSONDecodeError">>)
    /\ [](gen_result.kind # "fell_out")

\* the third answer, after two that are not JSON, is a fenced changeset, and
\* its files are returned
C36_Witness ==
    /\ gpc = "returned"
    /\ llmCalls = MaxRetries
    /\ gen_result = [kind |-> "returned", value |-> <<"f">>]
    /\ raw_output # responses[MaxRetries]

----------------------------------------------------------------------------
(* Properties of the oracle request *)

\* the named files that are readable files of the workspace
WorkspaceFilesNamed ==
    {file_path \in FilesToFix(ex_errors) :
        /\ UnderRoot(Resolve(RequestPath(file_path, Root)))
        /\ get_file_content(fs, file_path, Root).read}

\* C27 - Scoped oracle input: the request holds the content of exactly the
\* files that the current diagnostics name and that lie in the workspace: every
\* file read into it is named in a diagnostic and lies under the workspace
\* root, and every such file is in it with the content it has.
C27_ScopedRequest ==
    /\ (ex_pc \in {"reading", "requested"}) =>
          \A file_path \in DOMAIN file_contents :
              /\ file_path \in FilesToFix(ex_errors)
              /\ UnderRoot(Resolve(RequestPath(file_path, Root)))
              /\ file_contents[file_path] = fs[Resolve(RequestPath(file_path, Root))].content
    /\ (ex_pc = "requested") => DOMAIN file_contents = WorkspaceFilesNamed

====
